---------------------------- MODULE Spec2Model ----------------------------
(***************************************************************************)
(* A model of nonebot-plugin-orm's migration orchestration:                *)
(*   - the multi-database online runner of templates/multidb/env.py        *)
(*     (specification SpecOnline);                                         *)
(*   - the migration commands of migrate.py run through the single-bind    *)
(*     environment of templates/generic/env.py (specification Spec).       *)
(***************************************************************************)
EXTENDS Integers, Sequences, FiniteSets, TLC

(***************************************************************************)
(* Bounds of the model.                                                    *)
(***************************************************************************)
\* the largest number of binds in config.attributes["engines"]
MaxBinds == 3

\* the names binds are drawn from; "" is the default bind
BindNames == {"", "b1", "b2", "name"}

\* the largest number of revision scripts; revisions are numbered in the
\* order they were written, so a down-revision has a lower number
MaxRev == 3

\* the largest number of `nb orm` commands run one after another on a
\* fresh database
MaxCmds == 2

\* the largest number of revision scripts written in one session
MaxScripts == 1

\* how many of the source trees may be absent
MaxMissing == 1

\* how often _init_orm runs in one process
MaxInits == 2

\* the tables of the models and the layouts (columns, types) a table can have
Tables == {"t1", "t2"}

Layouts == {"absent", "v1", "v2"}

\* the declared models a project is drawn from
Models ==
    {[t \in Tables |-> IF t = "t1" THEN "v1" ELSE "absent"],
     [t \in Tables |-> IF t = "t1" THEN "v2" ELSE "v1"],
     [t \in Tables |-> IF t = "t1" THEN "absent" ELSE "v2"]}

VARIABLES
    \* ---- templates/multidb/env.py: run_migrations_online ----
    engines,        \* the configured binds, in dict order (a sequence of names)
    USE_TWOPHASE,   \* the module switch of env.py
    pc,             \* where run_migrations_online is
    idx,            \* position of the for loop in engines
    conns,          \* names with an open connection, in insertion order
    txns,           \* names with a two-phase transaction object
    tx,             \* per bind, the state of its transaction
    migrated,       \* binds whose do_run_migrations returned
    tasks,          \* the connections whose task of the current gather has not run
    orphans,        \* tasks of a gather that raised: they keep running
    preparedTx,     \* the transactions on which prepare() was executed
    rolled,         \* the connections on which rollback() was called
    closed,         \* the connections on which close() was called
    exc,            \* the exception caught by `except BaseException`
    propagated,     \* the exception that leaves run_migrations_online
    \* ---- migrate.py commands on the default bind (templates/generic) ----
    graph,          \* the revision scripts: revision |-> its down-revisions
    body,           \* revision |-> the table changes of its upgrade()
    declared,       \* target_metadata: table |-> declared layout
    live,           \* the live schema: table |-> layout
    version,        \* the rows of the version table
    snapshot,       \* the revision scripts under _data_dir / "migrations"
    transactional,  \* whether the dialect has transactional DDL
    last,           \* what the last command was given, did and returned
    ncmds,          \* how many commands have run
    labels,         \* revision |-> the branch labels its script declares
    session_factory,  \* what _session_factory and _scoped_sessions are bound to
    \* ---- migrate.py: AlembicConfig, one session ----
    session,        \* where the AlembicConfig object is in its life
    temp_dir,       \* whether the directory of TemporaryDirectory() exists
    alembic_version_locations,  \* plugin_config: name |-> configured location
    version_locations_option,   \* whether the ini file sets version_locations
    editable,       \* is_editable of the plugins (decided by their root plugin)
    is_path,        \* plugin |-> whether its version location is a pathlib.Path
    missing,        \* the trees among the sources that do not exist
    plugin_version_locations,   \* _plugin_version_locations: name |-> location
    workspace,      \* the files under _temp_dir: path |-> the file copied there
    workspace_dirs, \* the directories made under _temp_dir, as paths from it
    init_error,     \* what AlembicConfig() raised
    scripts,        \* the generated scripts on disk: where each one is
    moved_to,       \* what the last move_script was given, did and returned
    \* ---- __init__.py: the binds of the models ----
    sqlalchemy_binds,   \* the names plugin_config.sqlalchemy_binds configures
    table_of,       \* model class |-> its __table__ ("none" without one)
    bind_key_of,    \* table |-> table.info.get("bind_key") ("None" without one)
    orm_engines,    \* the keys of _engines
    orm_metadatas,  \* _metadatas: bind |-> the tables copied into its MetaData
    orm_binds,      \* _binds: model class |-> the bind whose engine it is given
    todo,           \* the model classes the loop of _init_table has yet to visit
    registration,   \* where _init_orm is
    ninits,         \* how often _init_orm has run
    \* ---- templates/multidb/env.py: run_migrations_offline ----
    offline_pc,     \* where run_migrations_offline is
    offline_idx,    \* the position of its loop in engines.items()
    sql_files,      \* the files it opened: file name |-> what was written
    offline_exc     \* the exception it raised

onlineVars == <<engines, USE_TWOPHASE, pc, idx, conns, txns, tx, migrated,
                tasks, orphans, preparedTx, rolled, closed, exc, propagated>>

cmdVars == <<graph, body, declared, live, version, snapshot, transactional,
             last, ncmds, labels, session_factory>>

configVars == <<alembic_version_locations, version_locations_option, editable,
                is_path, missing>>

sessionVars == <<session, temp_dir, configVars, plugin_version_locations,
                 workspace, workspace_dirs, init_error, scripts, moved_to>>

tableVars == <<sqlalchemy_binds, table_of, bind_key_of, orm_engines,
               orm_metadatas, orm_binds, todo, registration, ninits>>

offlineVars == <<offline_pc, offline_idx, sql_files, offline_exc>>

vars == <<onlineVars, cmdVars, sessionVars, tableVars, offlineVars>>

-----------------------------------------------------------------------------
(***************************************************************************)
(* Helpers.                                                                *)
(***************************************************************************)
RangeOf(s) == {s[k] : k \in DOMAIN s}

IsInjective(s) == \A a, b \in DOMAIN s : a /= b => s[a] /= s[b]

\* the dicts of binds a configuration can hold: the default bind is always
\* there (_init_engines), keys are distinct
EngineConfigs ==
    {s \in UNION {[1..n -> BindNames] : n \in 1..MaxBinds} :
        IsInjective(s) /\ "" \in RangeOf(s)}

Last(s) == s[Len(s)]

-----------------------------------------------------------------------------
(***************************************************************************)
(* templates/multidb/env.py: run_migrations_online.                        *)
(***************************************************************************)
\* run_migrations_online is entered with nothing opened
RunnerStart ==
    /\ engines \in EngineConfigs
    /\ USE_TWOPHASE \in BOOLEAN
    /\ pc = "connect"
    /\ idx = 1
    /\ conns = <<>>
    /\ txns = {}
    /\ tx = [b \in BindNames |-> "none"]
    /\ migrated = {}
    /\ tasks = {}
    /\ orphans = {}
    /\ preparedTx = {}
    /\ rolled = {}
    /\ closed = {}
    /\ exc = "none"
    /\ propagated = "none"

\* `except BaseException:` entered with the exception raised at `stage`
Raise(stage) ==
    /\ exc' = stage
    /\ pc' = "except"

\* a faulty variant: an except clause that re-raises without rolling back
ExceptRollbackNone == {}

\* the connections the except clause rolls back
\* (asyncio.gather(*(conn.rollback() for conn in conns.values())))
ExceptRollback == RangeOf(conns)

\* the transaction a prepare task of connection c prepares: the lambda reads
\* `name` when it runs, after the generator expression that built the tasks
\* was exhausted by the * of gather, so every task sees the last name
PrepareTarget(c) == Last(conns)

\* what follows the for loop
AfterLoop == IF USE_TWOPHASE THEN "prepare" ELSE "commit"

\* conn = conns[name] = await engine.connect()
connect ==
    /\ pc = "connect"
    /\ \/ /\ conns' = Append(conns, engines[idx])
          /\ pc' = "begin"
          /\ UNCHANGED exc
       \/ /\ Raise("connect")
          /\ UNCHANGED conns
    /\ UNCHANGED <<engines, USE_TWOPHASE, idx, txns, tx, migrated, tasks,
                   orphans, preparedTx, rolled, closed, propagated, cmdVars,
                   sessionVars, tableVars, offlineVars>>

\* txns[name] = await conn.run_sync(Connection.begin_twophase), or conn.begin()
begin ==
    /\ pc = "begin"
    /\ \/ /\ tx' = [tx EXCEPT ![engines[idx]] = "active"]
          /\ txns' = IF USE_TWOPHASE THEN txns \cup {engines[idx]} ELSE txns
          /\ pc' = "migrate"
          /\ UNCHANGED exc
       \/ /\ Raise("begin")
          /\ UNCHANGED <<tx, txns>>
    /\ UNCHANGED <<engines, USE_TWOPHASE, idx, conns, migrated, tasks,
                   orphans, preparedTx, rolled, closed, propagated, cmdVars,
                   sessionVars, tableVars, offlineVars>>

\* await conn.run_sync(do_run_migrations, name, target_metadatas[name])
migrate ==
    /\ pc = "migrate"
    /\ \/ /\ migrated' = migrated \cup {engines[idx]}
          /\ idx' = idx + 1
          /\ IF idx = Len(engines)
                THEN /\ pc' = AfterLoop
                     /\ tasks' = RangeOf(conns)
                ELSE /\ pc' = "connect"
                     /\ UNCHANGED tasks
          /\ UNCHANGED exc
       \/ /\ Raise("migrate")
          /\ UNCHANGED <<migrated, idx, tasks>>
    /\ UNCHANGED <<engines, USE_TWOPHASE, conns, txns, tx, orphans,
                   preparedTx, rolled, closed, propagated, cmdVars,
                   sessionVars, tableVars, offlineVars>>

\* one task of asyncio.gather(*(conn.run_sync(lambda _: txns[name].prepare()) ...))
prepare ==
    /\ pc = "prepare"
    /\ \E c \in tasks :
        \/ /\ preparedTx' = preparedTx \cup {PrepareTarget(c)}
           /\ tx' = [tx EXCEPT ![PrepareTarget(c)] = "prepared"]
           /\ tasks' = IF tasks = {c} THEN RangeOf(conns) ELSE tasks \ {c}
           /\ pc' = IF tasks = {c} THEN "commit" ELSE "prepare"
           /\ UNCHANGED <<exc, orphans>>
        \/ /\ Raise("prepare")
           /\ orphans' = tasks \ {c}
           /\ tasks' = {}
           /\ UNCHANGED <<preparedTx, tx>>
    /\ UNCHANGED <<engines, USE_TWOPHASE, idx, conns, txns, migrated,
                   rolled, closed, propagated, cmdVars,
                   sessionVars, tableVars, offlineVars>>

\* one task of asyncio.gather(*(conn.commit() for conn in conns.values()))
commit ==
    /\ pc = "commit"
    /\ \E c \in tasks :
        \/ /\ tx' = [tx EXCEPT ![c] = "committed"]
           /\ tasks' = tasks \ {c}
           /\ pc' = IF tasks = {c} THEN "finally" ELSE "commit"
           /\ UNCHANGED <<exc, orphans>>
        \/ /\ Raise("commit")
           /\ orphans' = tasks \ {c}
           /\ tasks' = {}
           /\ UNCHANGED tx
    /\ UNCHANGED <<engines, USE_TWOPHASE, idx, conns, txns, migrated,
                   preparedTx, rolled, closed, propagated, cmdVars,
                   sessionVars, tableVars, offlineVars>>

\* a commit task the failed gather left running completes while the except
\* or finally clause runs (gather does not cancel its other awaitables)
orphan_commit ==
    /\ pc \in {"except", "finally"}
    /\ exc = "commit"
    /\ \E c \in orphans :
        /\ orphans' = orphans \ {c}
        /\ tx' = IF tx[c] \in {"active", "prepared"}
                    THEN [tx EXCEPT ![c] = "committed"]
                    ELSE tx
    /\ UNCHANGED <<engines, USE_TWOPHASE, pc, idx, conns, txns, migrated,
                   tasks, preparedTx, rolled, closed, exc, propagated, cmdVars,
                   sessionVars, tableVars, offlineVars>>

\* except BaseException: await asyncio.gather(*(conn.rollback() ...)); raise
\* (rollback of a connection without a live transaction does nothing)
except ==
    /\ pc = "except"
    /\ rolled' = ExceptRollback
    /\ tx' = [b \in BindNames |->
                IF b \in ExceptRollback /\ tx[b] \in {"active", "prepared"}
                    THEN "rolledback" ELSE tx[b]]
    /\ propagated' = exc
    /\ pc' = "finally"
    /\ UNCHANGED <<engines, USE_TWOPHASE, idx, conns, txns, migrated, tasks,
                   orphans, preparedTx, closed, exc, cmdVars,
                   sessionVars, tableVars, offlineVars>>

\* finally: await asyncio.gather(*(conn.close() for conn in conns.values()))
finally ==
    /\ pc = "finally"
    /\ closed' = RangeOf(conns)
    /\ pc' = "done"
    /\ UNCHANGED <<engines, USE_TWOPHASE, idx, conns, txns, tx, migrated,
                   tasks, orphans, preparedTx, rolled, exc, propagated, cmdVars,
                   sessionVars, tableVars, offlineVars>>

NextOnline ==
    \/ connect
    \/ begin
    \/ migrate
    \/ prepare
    \/ commit
    \/ orphan_commit
    \/ except
    \/ finally


-----------------------------------------------------------------------------
(***************************************************************************)
(* The revision graph (alembic's ScriptDirectory, as migrate.py uses it).  *)
(***************************************************************************)
\* the graphs a script directory can hold: acyclic along down-revisions
Graphs ==
    UNION {{g \in [1..n -> SUBSET (1..n)] :
                \A r \in 1..n : \A p \in g[r] : p < r} : n \in 0..MaxRev}

Children(g, r) == {c \in DOMAIN g : r \in g[c]}

\* script.get_heads(): the revisions with no children
Heads(g) == {r \in DOMAIN g : Children(g, r) = {}}

\* the revisions of S and everything below them
RECURSIVE Ancestors(_, _)
Ancestors(g, S) ==
    LET P == S \cup UNION {g[r] : r \in S}
    IN  IF P = S THEN S ELSE Ancestors(g, P)

\* the revisions of S and everything above them
RECURSIVE Descendants(_, _)
Descendants(g, S) ==
    LET P == S \cup UNION {Children(g, r) : r \in S}
    IN  IF P = S THEN S ELSE Descendants(g, P)

Min(S) == CHOOSE x \in S : \A y \in S : x <= y

Max(S) == CHOOSE x \in S : \A y \in S : x >= y

\* a set of revisions parents first / children first
RECURSIVE Ascending(_)
Ascending(S) == IF S = {} THEN <<>> ELSE <<Min(S)>> \o Ascending(S \ {Min(S)})

RECURSIVE Descending(_)
Descending(S) == IF S = {} THEN <<>> ELSE <<Max(S)>> \o Descending(S \ {Max(S)})

(***************************************************************************)
(* Revision arguments: a string is a sequence of tokens, ":" one of them.  *)
(***************************************************************************)
Sym(k) == [k |-> k, id |-> 0]

Rev(i) == [k |-> "rev", id |-> i]

Colon == Sym(":")

\* `":" in revision`
HasColon(arg) == \E p \in DOMAIN arg : arg[p] = Colon

\* revision.split(":", 2): the pieces between the first two colons
RECURSIVE Split(_, _)
Split(arg, maxsplit) ==
    IF maxsplit = 0 \/ ~HasColon(arg)
        THEN <<arg>>
        ELSE LET p == Min({q \in DOMAIN arg : arg[q] = Colon})
             IN  <<SubSeq(arg, 1, p - 1)>>
                    \o Split(SubSeq(arg, p + 1, Len(arg)), maxsplit - 1)

\* script.get_revisions(tok) for one symbolic name or revision id
Resolve(g, tok) ==
    CASE tok.k = "base"  -> [ok |-> TRUE, revs |-> {}, err |-> "none"]
      [] tok.k = "heads" -> [ok |-> TRUE, revs |-> Heads(g), err |-> "none"]
      [] tok.k = "head"  ->
            IF Cardinality(Heads(g)) > 1
                THEN [ok |-> FALSE, revs |-> {}, err |-> "MultipleHeads"]
                ELSE [ok |-> TRUE, revs |-> Heads(g), err |-> "none"]
      [] tok.k = "rev"   ->
            IF tok.id \in DOMAIN g
                THEN [ok |-> TRUE, revs |-> {tok.id}, err |-> "none"]
                ELSE [ok |-> FALSE, revs |-> {}, err |-> "BadReference"]
      [] OTHER -> [ok |-> FALSE, revs |-> {}, err |-> "BadReference"]

\* script.get_revisions(targets) for a tuple of names
ResolveAll(g, targets) ==
    IF \E p \in DOMAIN targets : ~Resolve(g, targets[p]).ok
        THEN LET p == Min({q \in DOMAIN targets : ~Resolve(g, targets[q]).ok})
             IN  [ok |-> FALSE, revs |-> {}, err |-> Resolve(g, targets[p]).err]
        ELSE [ok |-> TRUE,
              revs |-> UNION {Resolve(g, targets[p]).revs : p \in DOMAIN targets},
              err |-> "none"]

(***************************************************************************)
(* Schemas, diffs and the bodies of revision scripts.                      *)
(***************************************************************************)
Schemas == [Tables -> Layouts]

EmptySchema == [t \in Tables |-> "absent"]

\* one table change: table t goes from layout `from` to layout `to`
Change(t, from, to) == [t |-> t, from |-> from, to |-> to]

\* the statement a change issues
Ddl(c) ==
    [op |-> IF c.from = "absent" THEN "create"
            ELSE IF c.to = "absent" THEN "drop" ELSE "alter",
     t |-> c.t]

\* upgrade() of the scripts that exist from the start; a script written by
\* a later revision command holds the changes autogenerate found
InitBody(r) ==
    LET t == IF r % 2 = 1 THEN "t1" ELSE "t2"
    IN  IF r <= 2 THEN {Change(t, "absent", "v1")}
        ELSE IF r <= 4 THEN {Change(t, "v1", "v2")}
        ELSE {}

\* downgrade() undoes upgrade()
Reverse(ops) == {Change(c.t, c.to, c.from) : c \in ops}

\* running a body: a change whose table is not in the layout it starts from
\* raises (CREATE of an existing table, ALTER or DROP of a missing one)
CanApply(lv, ops) == \A c \in ops : lv[c.t] = c.from

ApplyOps(lv, ops) ==
    [t \in Tables |->
        IF \E c \in ops : c.t = t THEN (CHOOSE c \in ops : c.t = t).to
        ELSE lv[t]]

\* a faulty variant: the filter of check applied whatever the command
no_drop_table_any(cmd, type_, reflected, compare_to_is_None) ==
    ~(type_ = "table" /\ reflected /\ compare_to_is_None)

\* env.no_drop_table: the include_object filter of the generic environment
no_drop_table(cmd, type_, reflected, compare_to_is_None) ==
    ~(cmd = "check" /\ type_ = "table" /\ reflected /\ compare_to_is_None)

\* produce_migrations(context, metadata).upgrade_ops, as table changes:
\* tables only in the metadata are added, tables only in the database are
\* removed (when include_object lets them through), others are altered
Diff(lv, md, cmd) ==
    {Change(t, lv[t], md[t]) : t \in
        {u \in Tables :
            /\ lv[u] /= md[u]
            /\ (lv[u] /= "absent" /\ md[u] = "absent")
                    => no_drop_table(cmd, "table", TRUE, TRUE)
            /\ (lv[u] = "absent" /\ md[u] /= "absent")
                    => no_drop_table(cmd, "table", FALSE, TRUE)
            /\ (lv[u] /= "absent" /\ md[u] /= "absent")
                    => no_drop_table(cmd, "table", FALSE, FALSE)}}


-----------------------------------------------------------------------------
(***************************************************************************)
(* Running steps (MigrationContext.run_migrations with the generator the   *)
(* command hands to EnvironmentContext as fn).                             *)
(***************************************************************************)
\* what a command did and returned
Out(lv, ver, snap) ==
    [result |-> "ok", live |-> lv, version |-> ver, snapshot |-> snap,
     executed |-> <<>>, ddl |-> {}, entered |-> FALSE, autogen |-> FALSE,
     diffs |-> {}, generated |-> 0, moved |-> FALSE, purged |-> FALSE,
     to |-> {}, branch_label |-> "", head |-> 0, label |-> "", merged |-> {},
     during |-> {}, left_patched |-> FALSE, startup_check |-> FALSE,
     answer |-> FALSE, events |-> <<>>, check_result |-> "none",
     printed |-> {}, opened |-> {}, relocated |-> {}]

\* the version table after the upgrade step of r: r replaces the
\* down-revisions of r that are recorded, or is inserted
UpgradeHeads(g, h, r) == (h \ g[r]) \cup {r}

\* the version table after the downgrade step of r: r is replaced by the
\* down-revisions no other recorded revision still covers, or deleted
DowngradeHeads(g, h, r) == (h \ {r}) \cup (g[r] \ Ancestors(g, h \ {r}))

\* a RevisionStep runs the body of a script; a StampStep runs nothing and
\* moves the recorded revisions `from` to `rev` (0: to none)
Step(dir, r) ==
    [kind |-> "revision", dir |-> dir, rev |-> r, from |-> {}, branch |-> FALSE]

StampStep(from, to, up, branch) ==
    [kind |-> "stamp", dir |-> IF up THEN "up" ELSE "down", rev |-> to,
     from |-> from, branch |-> branch]

\* the body a step executes
StepOps(b, s) ==
    IF s.kind = "stamp" THEN {}
    ELSE IF s.dir = "up" THEN b[s.rev] ELSE Reverse(b[s.rev])

\* HeadMaintainer.update_to_step can only delete or update a row that is
\* there and insert one that is not
CanStamp(h, s) ==
    IF s.dir = "down" /\ s.branch THEN Cardinality(s.from) = 1 /\ s.from \subseteq h
    ELSE IF s.dir = "up" /\ s.branch THEN s.rev \notin h
    ELSE s.from /= {} /\ s.from \subseteq h /\ s.rev \notin (h \ s.from)

\* the version table after a step
StepHeads(g, h, s) ==
    IF s.kind = "stamp"
        THEN IF s.dir = "down" /\ s.branch THEN h \ s.from
             ELSE IF s.dir = "up" /\ s.branch THEN h \cup {s.rev}
             ELSE (h \ s.from) \cup {s.rev}
    ELSE IF s.dir = "up" THEN UpgradeHeads(g, h, s.rev)
    ELSE DowngradeHeads(g, h, s.rev)

\* the steps run one after the other on a live connection, each followed by
\* the update of the version table; a step that raises ends the run
RECURSIVE RunSteps(_, _, _, _)
RunSteps(g, b, steps, st) ==
    IF steps = <<>> THEN st
    ELSE LET s == Head(steps)
             ops == StepOps(b, s)
         IN  IF s.kind = "stamp" /\ ~CanStamp(st.version, s)
                THEN [st EXCEPT !.result = "StampFailed"]
             ELSE IF ~CanApply(st.live, ops)
                THEN [st EXCEPT !.result = "StepFailed"]
             ELSE RunSteps(g, b, Tail(steps),
                        [st EXCEPT
                            !.live = ApplyOps(st.live, ops),
                            !.version = StepHeads(g, st.version, s),
                            !.executed = IF s.kind = "stamp" THEN st.executed
                                         ELSE Append(st.executed, s),
                            !.ddl = st.ddl \cup {Ddl(c) : c \in ops}])

\* script._upgrade_revs(revision, rev): what is below the targets and not
\* below the recorded revisions, parents first
upgrade_revs(g, targets, heads) ==
    LET needs == Ancestors(g, targets) \ Ancestors(g, heads)
    IN  [p \in 1..Cardinality(needs) |-> Step("up", Ascending(needs)[p])]

\* script._downgrade_revs(revision, rev): the recorded history above the
\* target (all of it for base), children first
downgrade_revs(g, targets, heads) ==
    LET roots == IF targets = {} THEN {r \in DOMAIN g : g[r] = {}}
                 ELSE UNION {Children(g, r) : r \in targets}
        undo == Descendants(g, roots) \cap Ancestors(g, heads)
    IN  [p \in 1..Cardinality(undo) |-> Step("down", Descending(undo)[p])]

\* _move_run_scripts(config, script, current): the data directory keeps the
\* scripts of script.walk_revisions(base="base", head=current)
move_run_scripts(g, targets) == Ancestors(g, targets)

\* what is left of a failed run: with transactional DDL the environment's
\* transaction is rolled back, without it each step was committed as it ran
AfterFailure(st, lv, ver) ==
    IF transactional
        THEN [st EXCEPT !.live = lv, !.version = ver]
        ELSE st

\* the token of a part of a split argument
PartTok(part) == IF Len(part) = 1 THEN part[1] ELSE Sym("")

\* _patch_migrate_session() around the steps of upgrade and downgrade:
\* whether the globals are left bound to the connection of the migration.
\* The line after the yield restores them, and it is reached only when the
\* block is left without an exception: an exception raised in the block,
\* and the GeneratorExit of a generator abandoned after a failed step, are
\* thrown in at the yield
patch_migrate_session(completed) == ~completed

\* upgrade and downgrade after the argument was parsed: EnvironmentContext
\* is entered and env.py runs the steps (online) or renders them (--sql)
Migrate(dir, target, starting_rev, sql) ==
    LET from == IF starting_rev = <<>>
                    THEN [ok |-> TRUE, revs |-> {}, err |-> "none"]
                    ELSE Resolve(graph, PartTok(starting_rev))
        to == Resolve(graph, PartTok(target))
        o == [Out(live, version, snapshot) EXCEPT !.entered = TRUE, !.to = to.revs]
        heads == IF sql THEN from.revs ELSE version
        steps == IF dir = "up" THEN upgrade_revs(graph, to.revs, heads)
                 ELSE downgrade_revs(graph, to.revs, heads)
        during == IF Len(steps) = 0 THEN {} ELSE {"migration"}
    IN  IF ~from.ok THEN [o EXCEPT !.result = from.err]
        ELSE IF ~to.ok
            THEN [o EXCEPT !.result = to.err,
                           !.left_patched = patch_migrate_session(FALSE)]
        ELSE IF /\ dir = "down"
                /\ to.revs /= {}
                /\ Len(steps) = 0
                /\ ~(to.revs \subseteq heads)
            THEN [o EXCEPT !.result = "RangeNotAncestor",
                           !.left_patched = patch_migrate_session(FALSE)]
        ELSE IF sql
            THEN [o EXCEPT !.executed = steps,
                           !.during = during,
                           !.left_patched = patch_migrate_session(TRUE),
                           !.snapshot = move_run_scripts(graph, to.revs),
                           !.moved = TRUE]
        ELSE LET st == RunSteps(graph, body, steps, [o EXCEPT !.during = during])
             IN  IF st.result = "ok"
                    THEN [st EXCEPT !.left_patched = patch_migrate_session(TRUE),
                                    !.snapshot = move_run_scripts(graph, to.revs),
                                    !.moved = TRUE]
                    ELSE [AfterFailure(st, live, version) EXCEPT
                            !.left_patched = patch_migrate_session(FALSE)]

\* a faulty variant: ranges let through whatever sql is
RangeCheckOff(revision, sql) == "ok"

\* `if ":" in revision: if not sql: raise click.BadParameter(...)`
RangeCheck(revision, sql) ==
    IF HasColon(revision) /\ ~sql THEN "InvalidRange" ELSE "ok"

\* a faulty variant: "head" whatever the number of heads
DefaultRevisionHead(g) == <<Sym("head")>>

\* `if revision is None:` of upgrade
DefaultRevision(g) ==
    IF Cardinality(Heads(g)) = 1 THEN <<Sym("head")>> ELSE <<Sym("heads")>>

\* migrate.upgrade(config, revision, sql)
upgrade_cmd(arg, sql) ==
    LET revision == IF arg = <<>> THEN DefaultRevision(graph) ELSE arg
        parts == Split(revision, 2)
    IN  IF RangeCheck(revision, sql) /= "ok"
            THEN [Out(live, version, snapshot) EXCEPT !.result = RangeCheck(revision, sql)]
        ELSE IF HasColon(revision) /\ Len(parts) /= 2
            THEN [Out(live, version, snapshot) EXCEPT !.result = "ValueError"]
        ELSE IF HasColon(revision)
            THEN Migrate("up", parts[2], parts[1], sql)
        ELSE Migrate("up", revision, <<>>, sql)

\* a faulty variant: --sql let through without a range
RangeRequiredOff(revision, sql) == "ok"

\* `elif sql: raise click.BadParameter(...)` of downgrade
RangeRequired(revision, sql) ==
    IF ~HasColon(revision) /\ sql THEN "RangeRequired" ELSE "ok"

\* migrate.downgrade(config, revision, sql)
downgrade_cmd(arg, sql) ==
    LET parts == Split(arg, 2)
    IN  IF RangeCheck(arg, sql) /= "ok"
            THEN [Out(live, version, snapshot) EXCEPT !.result = RangeCheck(arg, sql)]
        ELSE IF HasColon(arg) /\ Len(parts) /= 2
            THEN [Out(live, version, snapshot) EXCEPT !.result = "ValueError"]
        ELSE IF HasColon(arg)
            THEN Migrate("down", parts[2], parts[1], sql)
        ELSE IF RangeRequired(arg, sql) /= "ok"
            THEN [Out(live, version, snapshot) EXCEPT !.result = RangeRequired(arg, sql)]
        ELSE Migrate("down", arg, <<>>, sql)


-----------------------------------------------------------------------------
(***************************************************************************)
(* stamp.                                                                  *)
(***************************************************************************)
\* revision_map.filter_for_lineage(heads, tok): the recorded revisions on a
\* line with what tok names (all of them when tok names nothing)
FilterForLineage(g, heads, tok) ==
    LET shares == Resolve(g, tok).revs
    IN  IF shares = {} THEN heads
        ELSE {h \in heads :
                (Ancestors(g, {h}) \cup Descendants(g, {h})) \cap shares /= {}}

\* the revisions a tuple of names resolves to, in order
RECURSIVE DestSeq(_, _)
DestSeq(g, toks) ==
    IF toks = <<>> THEN <<>>
    ELSE Ascending(Resolve(g, Head(toks)).revs) \o DestSeq(g, Tail(toks))

\* the steps of one destination, against the recorded revisions `filtered`
StampStepsOf(g, filtered, d) ==
    IF d = 0
        THEN [p \in 1..Cardinality(filtered) |->
                StampStep({Ascending(filtered)[p]}, 0, FALSE, TRUE)]
    ELSE IF d \in filtered THEN <<>>
    ELSE IF Descendants(g, {d}) \cap filtered /= {}
        THEN <<StampStep(filtered, d, FALSE, FALSE)>>
    ELSE IF Ancestors(g, {d}) \cap filtered /= {}
        THEN <<StampStep(filtered, d, TRUE, FALSE)>>
    ELSE <<StampStep({}, d, TRUE, TRUE)>>

RECURSIVE StampStepsSeq(_, _, _)
StampStepsSeq(g, filtered, dests) ==
    IF dests = <<>> THEN <<>>
    ELSE StampStepsOf(g, filtered, Head(dests))
            \o StampStepsSeq(g, filtered, Tail(dests))

\* a faulty variant: a stamp that replays the scripts instead of only
\* recording them
stamp_revs_replaying(g, toks, heads) ==
    LET needs == Ancestors(g, ResolveAll(g, toks).revs) \ Ancestors(g, heads)
    IN  [p \in 1..Cardinality(needs) |-> Step("up", Ascending(needs)[p])]

\* script._stamp_revs(destination_revs, rev), for names that resolve
stamp_revs(g, toks, heads) ==
    LET filtered == UNION {FilterForLineage(g, heads, toks[p]) : p \in DOMAIN toks}
        dests == IF DestSeq(g, toks) = <<>> THEN <<0>> ELSE DestSeq(g, toks)
    IN  StampStepsSeq(g, filtered, dests)

\* _stamp_revs asserts that no recorded revision is below a destination
\* that another recorded revision is above
StampAssert(g, toks, heads) ==
    LET filtered == UNION {FilterForLineage(g, heads, toks[p]) : p \in DOMAIN toks}
    IN  \A d \in RangeOf(DestSeq(g, toks)) :
            (d \notin filtered /\ Descendants(g, {d}) \cap filtered /= {})
                => Ancestors(g, {d}) \cap filtered = {}

\* the loop of stamp over its revisions with --sql: ranges are split and
\* must agree on one starting revision (<<>>: None, <<p>>: the string p)
RECURSIVE StampParse(_, _, _)
StampParse(revisions, starting, dests) ==
    IF revisions = <<>>
        THEN [err |-> "none", starting |-> starting, dests |-> dests]
    ELSE LET rv == Head(revisions)
             parts == Split(rv, 2)
         IN  IF ~HasColon(rv)
                THEN StampParse(Tail(revisions), starting, Append(dests, rv))
             ELSE IF Len(parts) /= 2
                THEN [err |-> "ValueError", starting |-> starting, dests |-> dests]
             ELSE IF starting = <<parts[1]>>
                THEN StampParse(Tail(revisions), starting, Append(dests, parts[2]))
             ELSE IF starting = <<>>
                THEN StampParse(Tail(revisions), <<parts[1]>>, Append(dests, parts[2]))
             ELSE [err |-> "OneStartingRev", starting |-> starting, dests |-> dests]

\* a faulty variant: purge not handed on to the environment
PurgeKeepsRows(purge, ver) == ver

\* the rows run_migrations hands to fn: with purge the version table is
\* emptied first (_ensure_version_table(purge=True)) and fn is given none
PurgedVersion(purge, ver) == IF purge THEN {} ELSE ver

\* migrate.stamp(config, revisions, sql, purge)
stamp_cmd(args, sql, purge) ==
    LET revisions == IF args = <<>> THEN <<<<Sym("heads")>>>> ELSE args
        parsed == IF sql THEN StampParse(revisions, <<>>, <<>>)
                  ELSE [err |-> "none", starting |-> <<>>, dests |-> revisions]
        toks == [p \in DOMAIN parsed.dests |-> PartTok(parsed.dests[p])]
        from == IF parsed.starting = <<>>
                    THEN [ok |-> TRUE, revs |-> {}, err |-> "none"]
                    ELSE Resolve(graph, PartTok(parsed.starting[1]))
        to == ResolveAll(graph, toks)
        o == Out(live, version, snapshot)
        e == [o EXCEPT !.entered = TRUE,
                       !.to = to.revs,
                       !.purged = purge /\ ~sql,
                       !.version = IF sql THEN version
                                   ELSE PurgedVersion(purge, version)]
        heads == IF sql THEN from.revs ELSE e.version
    IN  IF parsed.err /= "none" THEN [o EXCEPT !.result = parsed.err]
        ELSE IF sql /\ purge
            THEN [o EXCEPT !.entered = TRUE, !.result = "PurgeWithSql"]
        ELSE IF ~from.ok
            THEN [o EXCEPT !.entered = TRUE, !.result = from.err]
        ELSE IF ~to.ok
            THEN AfterFailure([e EXCEPT !.result = to.err], live, version)
        ELSE IF ~StampAssert(graph, toks, heads)
            THEN AfterFailure([e EXCEPT !.result = "AssertionError"], live, version)
        ELSE LET st == RunSteps(graph, body, stamp_revs(graph, toks, heads),
                                [e EXCEPT !.version = heads])
             IN  IF st.result /= "ok"
                    THEN IF sql THEN [o EXCEPT !.entered = TRUE, !.result = st.result]
                         ELSE AfterFailure(st, live, version)
                 ELSE [st EXCEPT !.version = IF sql THEN version ELSE st.version,
                                 !.live = IF sql THEN live ELSE st.live,
                                 !.snapshot = move_run_scripts(graph, to.revs),
                                 !.moved = TRUE]


-----------------------------------------------------------------------------
(***************************************************************************)
(* check, revision and sync.                                               *)
(***************************************************************************)
\* a faulty variant: no comparison with the heads
UpToDateAlways(g, rev) == TRUE

\* the test of both retrieve_migrations: the recorded revisions against
\* script.get_revisions("heads")
UpToDate(g, rev) == rev = Heads(g)

\* a faulty variant: a check that never reports its diff
DiffsDetectedNever(diffs) == FALSE

\* `if diffs:` of check, on upgrade_ops.as_diffs()
DiffsDetected(diffs) == diffs /= {}

\* migrate.check(config): cmd_opts.cmd names check while env.py runs
check_cmd ==
    LET o == [Out(live, version, snapshot) EXCEPT !.entered = TRUE]
        diffs == Diff(live, declared, "check")
    IN  IF ~UpToDate(graph, version) THEN [o EXCEPT !.result = "OutOfDate"]
        ELSE IF DiffsDetected(diffs)
            THEN [o EXCEPT !.autogen = TRUE, !.diffs = diffs,
                           !.result = "DriftDetected"]
        ELSE [o EXCEPT !.autogen = TRUE]

\* --branch-label of revision and merge: none, or a label
BranchLabelArgs == {"", "x"}

\* the branch labels the scripts of a project declare
BranchLabels == {"x", "y"}

\* a faulty variant: only the labels the script declares itself
branch_labels_declared(g, l, r) == l[r]

\* Script.branch_labels of a head: the labels declared by the revision and
\* by the revisions below it (the revision map hands a label on to every
\* descendant of the revision that declares it)
branch_labels(g, l, r) == UNION {l[a] : a \in Ancestors(g, {r})}

\* what the head of the new revision resolves to: the revision it is based
\* on (0: base), the label it is given, or the error of generate_revision
Based(head, label) == [result |-> "ok", head |-> head, label |-> label]

\* a faulty variant: with several heads, any of them
RevisionHeadsAny(g, l, bl) ==
    LET carried == {h \in Heads(g) : bl \in branch_labels(g, l, h)}
    IN  IF bl /= ""
            THEN IF carried = {} THEN {Based(0, bl)}
                 ELSE IF Cardinality(carried) > 1
                     THEN {[Based(0, "") EXCEPT !.result = "MultipleHeads"]}
                 ELSE {Based(h, "") : h \in carried}
        ELSE IF Heads(g) = {} THEN {Based(0, "")}
        ELSE {Based(h, "") : h \in Heads(g)}

\* `if not head:` of revision, and the resolution of the head inside
\* generate_revision: with --branch-label, <label>@head when a head carries
\* the label (an error when several do), else base with the label; without,
\* "head" with at most one head, else the first head that has no branch
\* label, in the order of get_heads(), else base
RevisionHeads(g, l, bl) ==
    LET carried == {h \in Heads(g) : bl \in branch_labels(g, l, h)}
        main == {h \in Heads(g) : branch_labels(g, l, h) = {}}
    IN  IF bl /= ""
            THEN IF carried = {} THEN {Based(0, bl)}
                 ELSE IF Cardinality(carried) > 1
                     THEN {[Based(0, "") EXCEPT !.result = "MultipleHeads"]}
                 ELSE {Based(h, "") : h \in carried}
        ELSE IF Heads(g) = {} THEN {Based(0, "")}
        ELSE IF Cardinality(Heads(g)) = 1 THEN {Based(h, "") : h \in Heads(g)}
        ELSE IF main = {} THEN {Based(0, "")}
        ELSE {Based(h, "") : h \in main}

\* migrate.revision(config, sql=sql, branch_label=bl) in the generic
\* environment, which has no hook that drops an empty script: the script
\* written holds what autogenerate found, or nothing with --sql; h is what
\* the head resolves to
revision_cmd(sql, bl, h) ==
    LET o == [Out(live, version, snapshot) EXCEPT !.entered = TRUE,
                                                  !.branch_label = bl]
        diffs == Diff(live, declared, "revision")
        generate_scripts(p) ==
            IF h.result /= "ok" THEN [p EXCEPT !.result = h.result]
            ELSE [p EXCEPT !.generated = 1, !.head = h.head, !.label = h.label]
    IN  IF sql THEN generate_scripts(o)
        ELSE IF ~UpToDate(graph, version) THEN [o EXCEPT !.result = "OutOfDate"]
        ELSE generate_scripts([o EXCEPT !.autogen = TRUE, !.diffs = diffs])

\* REVISIONS of merge
MergeArgs == (SUBSET (1..MaxRev)) \ {{}}

\* migrate.merge(config, revisions, branch_label=bl): generate_revision
\* refuses a revision it cannot find, a revision that is no head (there is
\* no --splice) and a branch label that is in use
merge_cmd(revs, bl) ==
    LET o == [Out(live, version, snapshot) EXCEPT !.merged = revs,
                                                  !.branch_label = bl]
    IN  IF ~(revs \subseteq DOMAIN graph)
            THEN [o EXCEPT !.result = "ResolutionError"]
        ELSE IF ~(revs \subseteq Heads(graph))
            THEN [o EXCEPT !.result = "NotAHead"]
        ELSE IF bl /= "" /\ \E r \in DOMAIN labels : bl \in labels[r]
            THEN [o EXCEPT !.result = "DuplicateLabel"]
        ELSE [o EXCEPT !.generated = 1, !.label = bl]

\* a faulty variant: a merge script that names only one of its revisions
WithMergeOfOne(g, revs) ==
    [r \in 1..(Len(g) + 1) |->
        IF r <= Len(g) THEN g[r] ELSE {CHOOSE h \in revs : TRUE}]

\* the graph with a new script whose down-revisions are revs
WithMerge(g, revs) ==
    [r \in 1..(Len(g) + 1) |-> IF r <= Len(g) THEN g[r] ELSE revs]

\* the graph with a new script on top of `head`
WithRevision(g, head) ==
    [r \in 1..(Len(g) + 1) |->
        IF r <= Len(g) THEN g[r] ELSE IF head = 0 THEN {} ELSE {head}]

WithLabels(l, new) == [r \in 1..(Len(l) + 1) |-> IF r <= Len(l) THEN l[r] ELSE new]

WithBody(b, ops) == [r \in 1..(Len(b) + 1) |-> IF r <= Len(b) THEN b[r] ELSE ops]

\* the ways _run_ops can end part-way: some of the operations done
PartlyDone(ops) == SUBSET ops \ {ops}

\* a faulty variant: an except branch that swallows the error of _run_ops
\* and rebuilds nothing
SyncTablesSwallows(lv, md, ops, hasRevision) ==
    {[ok |-> TRUE, live |-> ApplyOps(lv, done), ddl |-> {Ddl(c) : c \in done}]
        : done \in SUBSET ops}

\* what sync does to the tables before its first yield: the operations of
\* the diff are run in place; when that raises and no revision was given,
\* every table the database then holds is dropped and the declared ones
\* are created (metadata.create_all). A set of [ok, live, ddl].
SyncTables(lv, md, ops, hasRevision) ==
    {[ok |-> TRUE, live |-> ApplyOps(lv, ops), ddl |-> {Ddl(c) : c \in ops}]}
    \cup
    UNION {
        LET partly == ApplyOps(lv, done)
            drops == Diff(partly, EmptySchema, "sync")
            creates == Diff(EmptySchema, md, "sync")
            sofar == {Ddl(c) : c \in done}
        IN  IF hasRevision
                THEN {[ok |-> FALSE, live |-> partly, ddl |-> sofar]}
            ELSE {[ok |-> TRUE, live |-> md,
                   ddl |-> sofar \cup {Ddl(c) : c \in drops \cup creates}],
                  [ok |-> FALSE, live |-> partly, ddl |-> sofar],
                  [ok |-> FALSE, live |-> EmptySchema,
                   ddl |-> sofar \cup {Ddl(c) : c \in drops}]}
        : done \in PartlyDone(ops)}

\* a faulty variant: no early return
SyncSkipsNever(arg, ops) == FALSE

\* the early return of sync.retrieve_migrations
SyncSkips(arg, ops) == arg = <<>> /\ ops = {}

\* a faulty variant: the declared models compared also when a revision is
\* given
SyncMetadataDeclared(arg) == declared

\* `metadata = MetaData() if revision else context.opts["target_metadata"]`
SyncMetadata(arg) == IF arg /= <<>> THEN EmptySchema ELSE declared

\* migrate.sync(config, revision): the set of its possible outcomes
sync_cmd(arg) ==
    LET md == SyncMetadata(arg)
        ops == Diff(live, md, "sync")
        to == IF arg = <<>> THEN [ok |-> TRUE, revs |-> {}, err |-> "none"]
              ELSE Resolve(graph, PartTok(arg))
        o == [Out(live, version, snapshot) EXCEPT !.entered = TRUE, !.to = to.revs]
    IN  IF SyncSkips(arg, ops) THEN {o}
        ELSE {  IF ~tb.ok
                    THEN AfterFailure([o EXCEPT !.result = "SyncFailed",
                                                !.live = tb.live,
                                                !.ddl = tb.ddl], live, version)
                ELSE LET stamped ==
                            RunSteps(graph, body,
                                     stamp_revs(graph, <<Sym("base")>>, version),
                                     [o EXCEPT !.live = tb.live, !.ddl = tb.ddl])
                     IN  IF stamped.result /= "ok"
                            THEN AfterFailure(stamped, live, version)
                         ELSE IF ~to.ok
                            THEN AfterFailure([stamped EXCEPT !.result = to.err],
                                              live, version)
                         ELSE LET st == RunSteps(graph, body,
                                            upgrade_revs(graph, to.revs, {}),
                                            stamped)
                              IN  IF st.result /= "ok"
                                     THEN AfterFailure(st, live, version)
                                  ELSE [st EXCEPT
                                          !.snapshot = move_run_scripts(graph, to.revs),
                                          !.moved = TRUE]
                : tb \in SyncTables(live, md, ops, arg /= <<>>)}


-----------------------------------------------------------------------------
(***************************************************************************)
(* AlembicConfig: the merged workspace and the plugin version locations.   *)
(* A directory is a record [base, sub]: the tree `base` and a path below   *)
(* it; a path is a sequence of names.                                      *)
(***************************************************************************)
\* the loaded plugins: b is a sub-plugin of a
Plugins == {"a", "b"}

\* _plugins.values(), in the order the plugins were loaded
PluginOrder == <<"a", "b">>

\* reversed(list(get_parent_plugins(plugin))): the names from the outermost
\* plugin to the plugin itself
Chain(p) == IF p = "b" THEN <<"a", "b">> ELSE IF p = "a" THEN <<"a">> ELSE <<>>

\* the trees a location can be configured as; "M" is migrations/versions
CfgLocs == {"M", "V"}

\* the keys of the configured mapping, in the order the mapping lists them
KeyOrder == <<"", "a", "b">>

Loc(base, sub) == [base |-> base, sub |-> sub]

\* _data_dir / "migrations"
DataDir == Loc("D", <<>>)

\* files(plugin.module) / "migrations", or files(orm_version_location)
OwnDir(p) == Loc(IF p = "a" THEN "Sa" ELSE "Sb", <<>>)

\* the trees the sources are taken from
Bases == {"D", "Sa", "Sb"} \cup CfgLocs

\* which of them may be absent
MissingSets == {m \in SUBSET Bases : Cardinality(m) <= MaxMissing}

\* the files every tree holds, as paths from its root
TreeFiles == {<<"x">>, <<"a", "x">>, <<"a", "b", "x">>}

IsPrefix(pre, q) == Len(pre) <= Len(q) /\ SubSeq(q, 1, Len(pre)) = pre

\* the files below a directory, as paths from that directory
FilesOf(loc) ==
    {SubSeq(f, Len(loc.sub) + 1, Len(f)) :
        f \in {g \in TreeFiles : IsPrefix(loc.sub, g) /\ Len(g) > Len(loc.sub)}}

\* shutil.copytree(src, dst, dirs_exist_ok=True) into the workspace: the
\* files of src land below dst and replace what is there
copytree(ws, src, dst) ==
    LET landed == {dst \o r : r \in FilesOf(src)}
    IN  [q \in DOMAIN ws \cup landed |->
            IF q \in landed
                THEN [base |-> src.base,
                      rel |-> src.sub \o SubSeq(q, Len(dst) + 1, Len(q))]
                ELSE ws[q]]

\* temp_version_locations[src] = dst on a dict: a key that is there keeps
\* its place and gets the new value, a new key goes last
Put(d, src, dst) ==
    IF \E i \in DOMAIN d : d[i].src = src
        THEN [i \in DOMAIN d |-> IF d[i].src = src
                                    THEN [src |-> src, dst |-> dst] ELSE d[i]]
        ELSE Append(d, [src |-> src, dst |-> dst])

\* alembic_version_locations.get("")
main_version_location(avl) ==
    IF "" \in DOMAIN avl THEN <<avl[""]>> ELSE <<>>

\* self._plugin_version_locations[""]
MainLocation(avl) ==
    IF main_version_location(avl) = <<>> THEN Loc("M", <<>>)
    ELSE Loc(main_version_location(avl)[1], <<>>)


\* a faulty variant: every editable plugin referenced where it lives, also
\* under a configured main location
PluginLocationLive(avl, ed, isp, p) ==
    IF ed /\ isp[p] THEN OwnDir(p) ELSE Loc(MainLocation(avl).base, Chain(p))

\* the location the loop over the plugins records for plugin p
PluginLocation(avl, ed, isp, p) ==
    IF main_version_location(avl) = <<>> /\ ed /\ isp[p]
        THEN OwnDir(p)
        ELSE Loc(MainLocation(avl).base, MainLocation(avl).sub \o Chain(p))

\* the keys of the configured mapping that get_plugin finds
Overridden(avl) == DOMAIN avl \cap Plugins

\* self._plugin_version_locations when _init_version_locations returns
PluginVersionLocations(avl, ed, isp) ==
    [n \in {""} \cup Plugins |->
        IF n = "" THEN MainLocation(avl)
        ELSE IF n \in Overridden(avl) THEN Loc(avl[n], <<>>)
        ELSE PluginLocation(avl, ed, isp, n)]

\* temp_version_locations after the loop over the plugins
RECURSIVE PluginCopies(_, _)
PluginCopies(d, ps) ==
    IF ps = <<>> THEN d
    ELSE PluginCopies(Put(d, OwnDir(Head(ps)), Chain(Head(ps))), Tail(ps))

\* temp_version_locations after the loop over the configured mapping
RECURSIVE OverrideCopies(_, _, _)
OverrideCopies(d, avl, keys) ==
    IF keys = <<>> THEN d
    ELSE IF Head(keys) \notin Overridden(avl)
        THEN OverrideCopies(d, avl, Tail(keys))
    ELSE OverrideCopies(Put(d, Loc(avl[Head(keys)], <<>>), Chain(Head(keys))),
                        avl, Tail(keys))

\* temp_version_locations in full: the snapshot of the data directory, the
\* plugins, the configured plugins, then the main location
temp_version_locations(avl) ==
    Put(OverrideCopies(PluginCopies(<<[src |-> DataDir, dst |-> <<>>]>>,
                                    PluginOrder),
                       avl, KeyOrder),
        MainLocation(avl), <<>>)

\* as_file(version_location) entered on the exit stack, plugin by plugin:
\* a pathlib.Path is handed back as it is; any other Traversable is read
\* into a temporary file when the context is entered, and reading what
\* does not exist raises FileNotFoundError out of the loop
RECURSIVE as_file_error(_)
as_file_error(ps) ==
    IF ps = <<>> THEN "none"
    ELSE IF ~is_path[Head(ps)] /\ OwnDir(Head(ps)).base \in missing
        THEN "FileNotFoundError"
    ELSE as_file_error(Tail(ps))

\* the files a source holds: none when it does not exist
Holds(src) == IF src.base \in missing THEN {} ELSE FilesOf(src)

\* what shutil.copytree raises for the source
copytree_error(src) ==
    IF src.base \in missing THEN "FileNotFoundError" ELSE "none"

\* `with suppress(FileNotFoundError, shutil.Error)`
Suppressed == {"FileNotFoundError", "Error"}

\* dst.mkdir(parents=True, exist_ok=True): dst and the directories above it
mkdir(dst) == {SubSeq(dst, 1, n) : n \in 0..Len(dst)}

\* `for src, dst in temp_version_locations.items()`: the directory is made,
\* then the tree is copied
RECURSIVE CopyAll(_, _)
CopyAll(st, d) ==
    IF d = <<>> THEN st
    ELSE LET made == [st EXCEPT !.dirs = @ \cup mkdir(Head(d).dst)]
             err == copytree_error(Head(d).src)
         IN  IF err = "none"
                THEN CopyAll([made EXCEPT
                                !.files = copytree(@, Head(d).src, Head(d).dst)],
                             Tail(d))
             ELSE IF err \in Suppressed THEN CopyAll(made, Tail(d))
             ELSE [made EXCEPT !.error = err]

\* the configurations of a project: the configured mapping, and what the
\* loaded plugins are
VersionLocationConfigs ==
    UNION {[K -> CfgLocs] : K \in SUBSET {"", "a", "b"}}


\* the directories of the workspace a revision is written to (c is the
\* name of no loaded plugin), and a --version-path outside the workspace
ScriptDirs == {<<>>, <<"a">>, <<"a", "b">>, <<"c">>}

OutsideDirs == {Loc("V", <<>>)}

\* a script file: inside the workspace (root "ws") or in the tree `root`
ScriptAt(root, dirs, id) == [root |-> root, dirs |-> dirs, id |-> id]

\* what move_script did and returned
Moved(sc, to, moved, warned) ==
    [path |-> sc, returned |-> to, moved |-> moved, warned |-> warned,
     result |-> "ok"]

\* before any call of move_script
NoMove ==
    [path |-> ScriptAt("none", <<>>, 0), returned |-> ScriptAt("none", <<>>, 0),
     moved |-> FALSE, warned |-> FALSE, result |-> "none"]

\* no AlembicConfig yet
SessionIdle ==
    /\ session = "none"
    /\ temp_dir = FALSE
    /\ alembic_version_locations = <<>>
    /\ version_locations_option = FALSE
    /\ editable = FALSE
    /\ is_path = [p \in Plugins |-> TRUE]
    /\ missing = {}
    /\ plugin_version_locations = <<>>
    /\ workspace = <<>>
    /\ workspace_dirs = {}
    /\ init_error = "none"
    /\ scripts = {}
    /\ moved_to = NoMove

\* a faulty variant: every path taken to be below the workspace
relative_to_anywhere(sc) == TRUE

\* script_path.relative_to(self._temp_dir) does not raise ValueError
relative_to(sc) == sc.root = "ws"

\* a faulty variant: the owner read from the first directory of the path
plugin_name_leading(dirs) == IF dirs = <<>> THEN "" ELSE Head(dirs)

\* script_path.parent.name: the directory the script is in
plugin_name(dirs) == IF dirs = <<>> THEN "" ELSE Last(dirs)

\* a faulty variant: no fallback to the main location
version_location_strict(pvl, name) ==
    IF name \in DOMAIN pvl THEN <<pvl[name]>> ELSE <<>>

\* self._plugin_version_locations.get(plugin_name), or else .get("")
version_location(pvl, name) ==
    IF name \in DOMAIN pvl THEN <<pvl[name]>>
    ELSE IF "" \in DOMAIN pvl THEN <<pvl[""]>>
    ELSE <<>>

\* AlembicConfig.move_script(script)
move_script(sc, pvl) ==
    LET found == version_location(pvl, plugin_name(sc.dirs))
    IN  IF ~relative_to(sc) THEN Moved(sc, sc, FALSE, FALSE)
        ELSE IF found = <<>>
            THEN Moved(sc, ScriptAt("relative", sc.dirs, sc.id), FALSE, TRUE)
        ELSE Moved(sc, ScriptAt(found[1].base, found[1].sub, sc.id), TRUE, FALSE)

\* a faulty variant: a close that leaves the directory behind
CleanupKeeps(exists) == exists

\* TemporaryDirectory.cleanup(), run by ExitStack.close() or by the
\* finalizer of the TemporaryDirectory object
Cleanup(exists) == FALSE

\* AlembicConfig(...): the temporary directory is made first; the rest of
\* __init__ can raise, and then nothing closes the exit stack
construct ==
    /\ session = "none"
    /\ temp_dir' = TRUE
    /\ \E raises \in BOOLEAN :
        IF raises
            THEN /\ session' = "failed"
                 /\ init_error' = "other"
                 /\ UNCHANGED <<plugin_version_locations, workspace,
                                workspace_dirs>>
        ELSE IF version_locations_option
            THEN /\ session' = "open"
                 /\ init_error' = "none"
                 /\ UNCHANGED <<plugin_version_locations, workspace,
                                workspace_dirs>>
        ELSE IF as_file_error(PluginOrder) /= "none"
            THEN /\ session' = "failed"
                 /\ init_error' = as_file_error(PluginOrder)
                 /\ UNCHANGED <<plugin_version_locations, workspace,
                                workspace_dirs>>
        ELSE LET copied ==
                    CopyAll([files |-> <<>>, dirs |-> {}, error |-> "none"],
                            temp_version_locations(alembic_version_locations))
             IN  /\ session' = IF copied.error = "none" THEN "open" ELSE "failed"
                 /\ init_error' = copied.error
                 /\ plugin_version_locations' =
                        PluginVersionLocations(alembic_version_locations,
                                               editable, is_path)
                 /\ workspace' = copied.files
                 /\ workspace_dirs' = copied.dirs
    /\ UNCHANGED <<configVars, scripts, moved_to, onlineVars, cmdVars,
                   tableVars, offlineVars>>

\* a command writes a revision script (revision, merge)
generate ==
    /\ session = "open"
    /\ Cardinality(scripts) < MaxScripts
    /\ \E sc \in {ScriptAt("ws", d, Cardinality(scripts) + 1) : d \in ScriptDirs}
            \cup {ScriptAt(o.base, o.sub, Cardinality(scripts) + 1) : o \in OutsideDirs} :
        scripts' = scripts \cup {sc}
    /\ UNCHANGED <<session, temp_dir, configVars, plugin_version_locations,
                   workspace, workspace_dirs, init_error, moved_to,
                   onlineVars, cmdVars,
                   tableVars, offlineVars>>

\* the result callback of the command line: config.move_script(script)
move ==
    /\ session = "open"
    /\ \E sc \in scripts :
        LET m == move_script(sc, plugin_version_locations)
        IN  /\ moved_to' = m
            /\ scripts' = IF m.moved THEN (scripts \ {sc}) \cup {m.returned}
                          ELSE scripts
    /\ UNCHANGED <<session, temp_dir, configVars, plugin_version_locations,
                   workspace, workspace_dirs, init_error, onlineVars, cmdVars,
                   tableVars, offlineVars>>

\* close(), also through __exit__ when the with block is left, by return or
\* by an exception of a command
close ==
    /\ session = "open"
    /\ \E raised \in BOOLEAN :
        session' = IF raised THEN "closed after an error" ELSE "closed"
    /\ temp_dir' = Cleanup(temp_dir)
    /\ workspace' = IF temp_dir' THEN workspace ELSE <<>>
    /\ workspace_dirs' = IF temp_dir' THEN workspace_dirs ELSE {}
    /\ scripts' = IF temp_dir' THEN scripts ELSE {sc \in scripts : sc.root /= "ws"}
    /\ UNCHANGED <<configVars, plugin_version_locations, init_error, moved_to,
                   onlineVars, cmdVars,
                   tableVars, offlineVars>>

\* the object whose construction failed is collected, or the interpreter
\* exits: the finalizer of its TemporaryDirectory runs
finalize ==
    /\ session = "failed"
    /\ temp_dir
    /\ temp_dir' = Cleanup(temp_dir)
    /\ workspace' = IF temp_dir' THEN workspace ELSE <<>>
    /\ workspace_dirs' = IF temp_dir' THEN workspace_dirs ELSE {}
    /\ UNCHANGED <<session, configVars, plugin_version_locations, init_error,
                   scripts, moved_to, onlineVars, cmdVars,
                   tableVars, offlineVars>>

NextSession ==
    \/ construct
    \/ generate
    \/ move
    \/ close
    \/ finalize


-----------------------------------------------------------------------------
(***************************************************************************)
(* The commands as actions (specification Spec).                           *)
(***************************************************************************)
\* the names a revision argument can hold
Targets == {Sym("base"), Sym("head"), Sym("heads")} \cup {Rev(r) : r \in 1..MaxRev}

\* REVISION of upgrade and downgrade: a name, or a range <from>:<to>
RevArgs ==
    {<<t>> : t \in Targets}
    \cup {<<Sym("base"), Colon, b>> : b \in {Sym("head")} \cup {Rev(r) : r \in 1..MaxRev}}
    \cup {<<Sym("base"), Colon, Rev(1), Colon, Sym("head")>>}

\* REVISIONS of stamp: none, one name or range, or two revisions
StampArgs ==
    {<<>>}
    \cup {<<<<t>>>> : t \in Targets}
    \cup {<<<<Rev(1), Colon, Sym("head")>>>>}
    \cup {<<<<Rev(q)>>, <<Rev(r)>>>> : q, r \in 1..MaxRev}

\* REVISION of sync
SyncArgs == {<<>>} \cup {<<t>> : t \in Targets}

\* REVS of show: nothing, the word current, or one name
ShowArgs == {<<>>, <<Sym("current")>>} \cup {<<t>> : t \in Targets}

\* REV of edit: the word current (the default) or one name
EditArgs == {Sym("current")} \cup Targets

\* whether show runs the environment to ask for the current revisions
ShowsCurrent(revs) == revs \in {<<>>, <<Sym("current")>>}

\* show for the current revisions: the function given to the environment
\* appends the tuple of current revisions and returns no step, and
\* get_revisions of the collected list is printed, script by script; the
\* empty tuple of an empty version table names no script
show_current(o) == [o EXCEPT !.printed = version]

\* show(config, revs)
show_cmd(revs) ==
    LET o == Out(live, version, snapshot)
    IN  IF ShowsCurrent(revs)
            THEN show_current([o EXCEPT !.entered = TRUE])
        ELSE LET r == ResolveAll(graph, revs)
             IN  IF ~r.ok THEN [o EXCEPT !.result = r.err]
                 ELSE [o EXCEPT !.printed = r.revs]

\* edit(config, rev): each script named is moved out of the workspace by
\* config.move_script and opened in the editor
edit_cmd(rev) ==
    LET o == Out(live, version, snapshot)
    IN  IF rev = Sym("current")
            THEN IF version = {}
                    THEN [o EXCEPT !.entered = TRUE, !.result = "EmptyTarget"]
                    ELSE [o EXCEPT !.entered = TRUE, !.relocated = version,
                                   !.opened = version]
        ELSE LET r == Resolve(graph, rev)
             IN  IF ~r.ok THEN [o EXCEPT !.result = r.err]
                 ELSE IF r.revs = {} THEN [o EXCEPT !.result = "BadParameter"]
                 ELSE [o EXCEPT !.relocated = r.revs, !.opened = r.revs]

\* the class AutogenerateDiffsDetected that check raises for a drift is a
\* usage error: the startup check offers its confirmation before a drift
\* failure becomes an abort
AutogenerateDiffsDetectedIsUsageError == TRUE

\* a startup that lets every failure of check through
CaughtNone(result) == FALSE

\* `except click.UsageError` around the check of init_orm
Caught(result) ==
    \/ result = "OutOfDate"
    \/ result = "DriftDetected" /\ AutogenerateDiffsDetectedIsUsageError

\* init_orm after _init_orm(), inside `with migrate.AlembicConfig(...)`:
\* check, and upgrade when check raised a usage error and the operator
\* confirmed (click.confirm(abort=True) raises Abort on a refusal and when
\* no answer can be read, and the error of check is raised again); sync when
\* the startup check is switched off
init_orm_cmd(startup_check, answer) ==
    IF startup_check
        THEN LET c == check_cmd
                 checked == [c EXCEPT !.startup_check = TRUE,
                                      !.check_result = c.result]
             IN  IF ~Caught(c.result)
                    THEN {[checked EXCEPT !.events = <<"check">>]}
                 ELSE IF ~answer
                    THEN {[checked EXCEPT !.events = <<"check", "confirm">>]}
                 ELSE {[upgrade_cmd(<<>>, FALSE) EXCEPT
                            !.startup_check = TRUE,
                            !.check_result = c.result,
                            !.answer = TRUE,
                            !.events = <<"check", "confirm", "upgrade">>]}
        ELSE {[o EXCEPT !.events = <<"sync">>] : o \in sync_cmd(<<>>)}

\* what is remembered of the last command
LastOf(cmd, noarg, range, sql, purge, fast, o) ==
    [cmd |-> cmd, noarg |-> noarg, range |-> range, before |-> version,
     to |-> o.to, sql |-> sql, purge |-> purge, fast |-> fast,
     result |-> o.result, executed |-> o.executed, ddl |-> o.ddl,
     entered |-> o.entered, autogen |-> o.autogen, diffs |-> o.diffs,
     generated |-> o.generated, moved |-> o.moved, purged |-> o.purged,
     branch_label |-> o.branch_label, head |-> o.head, label |-> o.label,
     merged |-> o.merged, during |-> o.during, startup_check |-> o.startup_check,
     answer |-> o.answer, events |-> o.events, check_result |-> o.check_result,
     printed |-> o.printed, opened |-> o.opened, relocated |-> o.relocated]

\* ---------------------------------------------------------------------
\* __init__.py: the engines, the metadata and the binds of the models

\* the binds a project can configure besides the default bind ""
BindKeys == {"a", "b"}

\* the subclasses of Model and the tables they can be mapped to: a class
\* has a table of its own, shares the table of another class (single-table
\* inheritance), or has none (an abstract class)
ModelClasses == {"A", "B", "C"}

ModelTables == {"ta", "tb"}

\* table.info.get("bind_key"): the name of a plugin or of a bind, the
\* default bind "", or nothing when the class did not go through
\* _setup_bind
TableBindKeys == {"None", "", "a", "p"}

TablesIdle ==
    /\ sqlalchemy_binds = {}
    /\ table_of = [m \in ModelClasses |-> "none"]
    /\ bind_key_of = [t \in ModelTables |-> "None"]
    /\ orm_engines = {}
    /\ orm_metadatas = <<>>
    /\ orm_binds = <<>>
    /\ todo = {}
    /\ registration = "none"
    /\ ninits = 0

\* a lookup without the default
get_strict(keys, bind_key) == bind_key

\* _engines.get(bind_key, _engines[""]) and
\* _metadatas.get(bind_key, _metadatas[""]): the bind whose entry is taken
get(keys, bind_key) == IF bind_key \in keys THEN bind_key ELSE ""

\* _init_orm() up to the loop of _init_table: _init_engines() makes one
\* engine and one empty MetaData for every configured bind and for the
\* default bind, and _init_table empties _binds and collects the classes
init_engines ==
    /\ registration \in {"none", "registered"}
    /\ ninits < MaxInits
    /\ ninits' = ninits + 1
    /\ orm_engines' = sqlalchemy_binds \cup {""}
    /\ orm_metadatas' = [b \in sqlalchemy_binds \cup {""} |-> {}]
    /\ orm_binds' = <<>>
    /\ todo' = ModelClasses
    /\ registration' = "registering"
    /\ UNCHANGED <<sqlalchemy_binds, table_of, bind_key_of, onlineVars, cmdVars,
                   sessionVars, offlineVars>>

\* one pass of `for model in set(get_subclasses(Model))`, the classes in
\* the order the set yields them
init_table ==
    /\ registration = "registering"
    /\ \E model \in todo :
        LET table == table_of[model]
            bind_key == IF table = "none" THEN "None" ELSE bind_key_of[table]
        IN  /\ todo' = todo \ {model}
            /\ IF table = "none" \/ bind_key = "None"
                  THEN UNCHANGED <<orm_binds, orm_metadatas>>
                  ELSE /\ orm_binds' =
                            [m \in DOMAIN orm_binds \cup {model} |->
                                IF m = model THEN get(orm_engines, bind_key)
                                ELSE orm_binds[m]]
                       /\ orm_metadatas' =
                            [orm_metadatas EXCEPT
                                ![get(DOMAIN orm_metadatas, bind_key)] =
                                    @ \cup {table}]
    /\ registration' = IF todo' = {} THEN "registered" ELSE "registering"
    /\ UNCHANGED <<sqlalchemy_binds, table_of, bind_key_of, orm_engines, ninits,
                   onlineVars, cmdVars, sessionVars, offlineVars>>

NextTables ==
    \/ init_engines
    \/ init_table

\* ---------------------------------------------------------------------
\* templates/multidb/env.py: run_migrations_offline

OfflineIdle ==
    /\ offline_pc = "idle"
    /\ offline_idx = 1
    /\ sql_files = <<>>
    /\ offline_exc = "none"

\* f"{name}.sql"
SqlFile(name) == name \o ".sql"

\* the key target_metadatas is looked up with for the bind `name`: the
\* string literal "name"
MetadataKey(name) == "name"

\* `with open(file_, "w") as buffer`: the file is made, or emptied
open_file ==
    /\ offline_pc = "open"
    /\ sql_files' =
            [f \in DOMAIN sql_files \cup {SqlFile(engines[offline_idx])} |->
                IF f = SqlFile(engines[offline_idx])
                    THEN [bind |-> "none", metadata |-> "none"]
                    ELSE sql_files[f]]
    /\ offline_pc' = "configure"
    /\ UNCHANGED <<offline_idx, offline_exc, onlineVars, cmdVars, sessionVars,
                   tableVars>>

\* context.configure(url=engine.url, output_buffer=buffer,
\* target_metadata=target_metadatas["name"], ...) and
\* context.run_migrations(name=name) into the file; target_metadatas has
\* the keys of engines
render ==
    /\ offline_pc = "configure"
    /\ IF MetadataKey(engines[offline_idx]) \in RangeOf(engines)
          THEN /\ sql_files' =
                    [sql_files EXCEPT ![SqlFile(engines[offline_idx])] =
                        [bind |-> engines[offline_idx],
                         metadata |-> MetadataKey(engines[offline_idx])]]
               /\ offline_idx' = offline_idx + 1
               /\ offline_pc' = IF offline_idx = Len(engines) THEN "done"
                                ELSE "open"
               /\ UNCHANGED offline_exc
          ELSE /\ offline_exc' = "KeyError"
               /\ offline_pc' = "raised"
               /\ UNCHANGED <<sql_files, offline_idx>>
    /\ UNCHANGED <<onlineVars, cmdVars, sessionVars, tableVars>>

NextOffline ==
    \/ open_file
    \/ render

OnlineIdle ==
    /\ engines = <<"">>
    /\ USE_TWOPHASE = FALSE
    /\ pc = "idle"
    /\ idx = 1
    /\ conns = <<>>
    /\ txns = {}
    /\ tx = [b \in BindNames |-> "none"]
    /\ migrated = {}
    /\ tasks = {}
    /\ orphans = {}
    /\ preparedTx = {}
    /\ rolled = {}
    /\ closed = {}
    /\ exc = "none"
    /\ propagated = "none"

CmdIdle ==
    /\ graph = <<>>
    /\ body = <<>>
    /\ declared = EmptySchema
    /\ live = EmptySchema
    /\ version = {}
    /\ snapshot = {}
    /\ transactional = TRUE
    /\ last = LastOf("none", TRUE, FALSE, FALSE, FALSE, FALSE,
                     Out(EmptySchema, {}, {}))
    /\ ncmds = 0
    /\ labels = <<>>
    /\ session_factory = "application"

\* a fresh database, the scripts and the models of some project
Init ==
    /\ OnlineIdle
    /\ SessionIdle
    /\ TablesIdle
    /\ OfflineIdle
    /\ graph \in Graphs
    /\ labels = [r \in DOMAIN graph |-> {}]
    /\ body = [r \in DOMAIN graph |-> InitBody(r)]
    /\ declared \in Models
    /\ live = EmptySchema
    /\ version = {}
    /\ snapshot = {}
    /\ transactional \in BOOLEAN
    /\ last = LastOf("none", TRUE, FALSE, FALSE, FALSE, FALSE,
                     Out(live, version, snapshot))
    /\ ncmds = 0
    /\ session_factory = "application"

\* the state a command leaves
Finish(cmd, noarg, range, sql, purge, fast, o) ==
    /\ ncmds < MaxCmds
    /\ ncmds' = ncmds + 1
    /\ live' = o.live
    /\ version' = o.version
    /\ snapshot' = o.snapshot
    /\ last' = LastOf(cmd, noarg, range, sql, purge, fast, o)
    /\ session_factory' = IF o.left_patched THEN "migration" ELSE session_factory
    /\ UNCHANGED <<declared, transactional, onlineVars, sessionVars,
                   tableVars, offlineVars>>

\* `nb orm upgrade [REVISION] [--sql]`: the command has no other switch, so
\* --fast is refused by the option parser before migrate.upgrade is called
cli_upgrade(arg, sql, fast) ==
    IF fast THEN [Out(live, version, snapshot) EXCEPT !.result = "NoSuchOption"]
    ELSE upgrade_cmd(arg, sql)

upgrade ==
    \E arg \in RevArgs \cup {<<>>}, sql \in BOOLEAN, fast \in BOOLEAN :
        /\ Finish("upgrade", arg = <<>>, HasColon(arg), sql, FALSE, fast,
                  cli_upgrade(arg, sql, fast))
        /\ UNCHANGED <<graph, body, labels>>

downgrade ==
    \E arg \in RevArgs, sql \in BOOLEAN :
        /\ Finish("downgrade", FALSE, HasColon(arg), sql, FALSE, FALSE,
                  downgrade_cmd(arg, sql))
        /\ UNCHANGED <<graph, body, labels>>

stamp ==
    \E args \in StampArgs, sql \in BOOLEAN, purge \in BOOLEAN :
        /\ Finish("stamp", args = <<>>, \E p \in DOMAIN args : HasColon(args[p]),
                  sql, purge, FALSE, stamp_cmd(args, sql, purge))
        /\ UNCHANGED <<graph, body, labels>>

sync ==
    \E arg \in SyncArgs : \E o \in sync_cmd(arg) :
        /\ Finish("sync", arg = <<>>, FALSE, FALSE, FALSE, FALSE, o)
        /\ UNCHANGED <<graph, body, labels>>

check ==
    /\ Finish("check", TRUE, FALSE, FALSE, FALSE, FALSE, check_cmd)
    /\ UNCHANGED <<graph, body, labels>>

\* revision_context.generate_scripts() follows only when run_env returned
revision ==
    /\ Len(graph) < MaxRev
    /\ \E sql \in BOOLEAN, bl \in BranchLabelArgs :
        \E h \in RevisionHeads(graph, labels, bl) :
            LET o == revision_cmd(sql, bl, h)
            IN  /\ Finish("revision", TRUE, FALSE, sql, FALSE, FALSE, o)
                /\ IF o.generated = 1
                      THEN /\ graph' = WithRevision(graph, o.head)
                           /\ body' = WithBody(body, o.diffs)
                           /\ labels' = WithLabels(labels, {o.label} \ {""})
                      ELSE UNCHANGED <<graph, body, labels>>

\* `nb orm merge REVISIONS... [--branch-label]`
merge ==
    /\ Len(graph) < MaxRev
    /\ \E revs \in MergeArgs, bl \in BranchLabelArgs :
        LET o == merge_cmd(revs, bl)
        IN  /\ Finish("merge", FALSE, FALSE, FALSE, FALSE, FALSE, o)
            /\ IF o.generated = 1
                  THEN /\ graph' = WithMerge(graph, revs)
                       /\ body' = WithBody(body, {})
                       /\ labels' = WithLabels(labels, {o.label} \ {""})
                  ELSE UNCHANGED <<graph, body, labels>>

\* `nb orm show [REVS]`
show ==
    \E revs \in ShowArgs :
        /\ Finish("show", ShowsCurrent(revs), FALSE, FALSE, FALSE, FALSE,
                  show_cmd(revs))
        /\ UNCHANGED <<graph, body, labels>>

\* `nb orm edit [REV]`
edit ==
    \E rev \in EditArgs :
        /\ Finish("edit", rev = Sym("current"), FALSE, FALSE, FALSE, FALSE,
                  edit_cmd(rev))
        /\ UNCHANGED <<graph, body, labels>>

\* the startup hook of the driver
init_orm ==
    \E startup_check \in BOOLEAN, answer \in BOOLEAN :
        \E o \in init_orm_cmd(startup_check, answer) :
            /\ Finish("init_orm", TRUE, FALSE, FALSE, FALSE, FALSE, o)
            /\ UNCHANGED <<graph, body, labels>>

Next ==
    \/ upgrade
    \/ downgrade
    \/ stamp
    \/ sync
    \/ check
    \/ revision

Spec == Init /\ [][Next]_vars

\* a project that is started, and started again, with `nb orm sync`
\* before or between the starts
NextStartup ==
    \/ init_orm
    \/ sync

SpecStartup == Init /\ [][NextStartup]_vars

InitOnline ==
    RunnerStart /\ CmdIdle /\ SessionIdle /\ TablesIdle /\ OfflineIdle

\* the environment script is run in offline mode (--sql) for some
\* configured binds
InitOffline ==
    /\ engines \in EngineConfigs
    /\ USE_TWOPHASE \in BOOLEAN
    /\ pc = "idle"
    /\ idx = 1
    /\ conns = <<>>
    /\ txns = {}
    /\ tx = [b \in BindNames |-> "none"]
    /\ migrated = {}
    /\ tasks = {}
    /\ orphans = {}
    /\ preparedTx = {}
    /\ rolled = {}
    /\ closed = {}
    /\ exc = "none"
    /\ propagated = "none"
    /\ CmdIdle
    /\ SessionIdle
    /\ TablesIdle
    /\ offline_pc = "open"
    /\ offline_idx = 1
    /\ sql_files = <<>>
    /\ offline_exc = "none"

SpecOffline == InitOffline /\ [][NextOffline]_vars

\* the configured binds and the model classes of some project, before
\* _init_orm has run
InitTables ==
    /\ OnlineIdle
    /\ CmdIdle
    /\ SessionIdle
    /\ OfflineIdle
    /\ sqlalchemy_binds \in SUBSET BindKeys
    /\ table_of \in {f \in [ModelClasses -> ModelTables \cup {"none"}] :
                        f["A"] = "ta"}
    /\ bind_key_of \in [ModelTables -> TableBindKeys]
    /\ orm_engines = {}
    /\ orm_metadatas = <<>>
    /\ orm_binds = <<>>
    /\ todo = {}
    /\ registration = "none"
    /\ ninits = 0

SpecTables == InitTables /\ [][NextTables]_vars

SpecOnline == InitOnline /\ [][NextOnline]_vars

\* the script directories of a project whose revisions carry branch
\* labels, a label declared by one revision at most, and a database that
\* is fresh or stamped at the heads
InitScripts ==
    /\ OnlineIdle
    /\ SessionIdle
    /\ TablesIdle
    /\ OfflineIdle
    /\ graph \in Graphs
    /\ labels \in {l \in [DOMAIN graph -> SUBSET BranchLabels] :
                        \A q, r \in DOMAIN graph : q /= r => l[q] \cap l[r] = {}}
    /\ body = [r \in DOMAIN graph |-> InitBody(r)]
    /\ declared \in Models
    /\ live = EmptySchema
    /\ version \in {{}, Heads(graph)}
    /\ snapshot = {}
    /\ transactional = TRUE
    /\ last = LastOf("none", TRUE, FALSE, FALSE, FALSE, FALSE,
                     Out(live, version, snapshot))
    /\ ncmds = 0
    /\ session_factory = "application"

NextScripts ==
    \/ revision
    \/ merge
    \/ show
    \/ edit

SpecScripts == InitScripts /\ [][NextScripts]_vars

\* a project configured some way, before its AlembicConfig is made
InitSession ==
    /\ OnlineIdle
    /\ CmdIdle
    /\ TablesIdle
    /\ OfflineIdle
    /\ session = "none"
    /\ temp_dir = FALSE
    /\ alembic_version_locations \in VersionLocationConfigs
    /\ version_locations_option \in BOOLEAN
    /\ editable \in BOOLEAN
    /\ is_path \in [Plugins -> BOOLEAN]
    /\ missing \in MissingSets
    /\ plugin_version_locations = <<>>
    /\ workspace = <<>>
    /\ workspace_dirs = {}
    /\ init_error = "none"
    /\ scripts = {}
    /\ moved_to = NoMove

SpecSession == InitSession /\ [][NextSession]_vars

\* the finalizer of a TemporaryDirectory is run when the object is
\* collected and at the latest when the interpreter exits
SpecSessionFair == SpecSession /\ WF_vars(finalize)


-----------------------------------------------------------------------------
(***************************************************************************)
(* Claims about run_migrations_online (specification SpecOnline).          *)
(***************************************************************************)
Committed == {b \in BindNames : tx[b] = "committed"}

\* C1: in the multi-database online runner no bind's transaction is committed
\* unless the migrations of every configured bind ran to completion; when
\* connecting, beginning a transaction or running the migrations fails for a
\* bind, every connection opened so far is rolled back, nothing is committed
\* and the error is re-raised to the caller.
C1_CommitOnlyAfterAllMigrated ==
    /\ Committed /= {} => migrated = RangeOf(engines)
    /\ (pc = "done" /\ exc \in {"connect", "begin", "migrate"}) =>
            /\ rolled = RangeOf(conns)
            /\ Committed = {}
            /\ \A b \in RangeOf(conns) : tx[b] \in {"none", "rolledback"}
            /\ propagated = exc

\* C1 witness: the migrations of a later bind failed with two connections
\* open, both were rolled back and the error left the runner.
C1_Witness ==
    /\ pc = "done"
    /\ exc = "migrate"
    /\ Len(conns) >= 2
    /\ migrated /= {}
    /\ rolled = RangeOf(conns)
    /\ propagated = "migrate"

\* C2: with USE_TWOPHASE every bind's own two-phase transaction is prepared
\* before any bind is committed: once a commit has occurred, a prepare of the
\* transaction of every bind in engines has occurred.
C2_AllPreparedBeforeAnyCommit ==
    (USE_TWOPHASE /\ Committed /= {}) => RangeOf(engines) \subseteq preparedTx


-----------------------------------------------------------------------------
(***************************************************************************)
(* Claims about the commands (specification Spec).  In a step of Spec the  *)
(* unprimed variables are the state a command found and last' tells which  *)
(* command ran, with what, and what it did.                                *)
(***************************************************************************)
\* C3: check, and revision without --sql, fail with the out-of-date error
\* whenever the recorded revisions are not the heads of the graph; then
\* autogenerate is not run and no script is generated.  revision --sql makes
\* no such comparison: it writes its script whatever is recorded.
C3_OutOfDate ==
    [][/\ (/\ last'.cmd \in {"check", "revision"}
           /\ ~last'.sql
           /\ version /= Heads(graph))
            => /\ last'.result = "OutOfDate"
               /\ ~last'.autogen
               /\ last'.generated = 0
               /\ graph' = graph
               /\ body' = body
       /\ (last'.cmd = "revision" /\ last'.sql)
            => /\ last'.result = "ok"
               /\ last'.generated = 1
               /\ Len(graph') = Len(graph) + 1]_vars

\* C3 witness: revision without --sql was refused on a database that
\* records some revision but not the heads.
C3_Witness ==
    /\ last.cmd = "revision"
    /\ ~last.sql
    /\ last.result = "OutOfDate"
    /\ version /= {}
    /\ version /= Heads(graph)

\* C4: on a database at the heads, check fails with the drift error, which
\* carries the diff, exactly when the autogenerated operations are a
\* non-empty diff, and succeeds otherwise; either way the live schema, the
\* version table and the scripts are as before.
C4_CheckDrift ==
    [][(last'.cmd = "check" /\ version = Heads(graph))
        => /\ last'.autogen
           /\ last'.result = "DriftDetected"
                <=> (\E t \in Tables : declared[t] \notin {"absent", live[t]})
           /\ last'.result = "DriftDetected"
                => /\ last'.diffs /= {}
                   /\ last'.diffs = Diff(live, declared, "check")
           /\ last'.result \in {"DriftDetected", "ok"}
           /\ live' = live
           /\ version' = version
           /\ snapshot' = snapshot
           /\ graph' = graph
           /\ body' = body
           /\ last'.generated = 0]_vars

\* C4 witness: check found drift on a database that is at a non-empty head
\* set and holds tables.
C4_Witness ==
    /\ last.cmd = "check"
    /\ last.result = "DriftDetected"
    /\ last.diffs /= {}
    /\ version = Heads(graph)
    /\ version /= {}
    /\ live /= EmptySchema

\* C5: upgrade and downgrade given a range while sql is false fail with the
\* InvalidRange bad-parameter error before the environment is entered: no
\* step runs and the schema, the version table and the run-scripts snapshot
\* are unchanged.
C5_InvalidRange ==
    [][(/\ last'.cmd \in {"upgrade", "downgrade"}
        /\ last'.range
        /\ ~last'.sql
        /\ ~last'.fast)
        => /\ last'.result = "InvalidRange"
           /\ ~last'.entered
           /\ last'.executed = <<>>
           /\ last'.ddl = {}
           /\ ~last'.moved
           /\ live' = live
           /\ version' = version
           /\ snapshot' = snapshot]_vars

\* C5 witness: downgrade with a range and no --sql was refused on a
\* database that has revisions to undo.
C5_Witness ==
    /\ last.cmd = "downgrade"
    /\ last.range
    /\ ~last.sql
    /\ last.result = "InvalidRange"
    /\ version /= {}
    /\ live /= EmptySchema

\* C6: upgrade has a fast path: asked for with head/heads as the target on a
\* database whose version table holds no row, it creates the tables of the
\* declared models without running a script and records the heads.
C6_FastPath ==
    [][(/\ last'.cmd = "upgrade"
        /\ last'.fast
        /\ last'.noarg
        /\ ~last'.sql
        /\ version = {})
        => /\ last'.result = "ok"
           /\ last'.executed = <<>>
           /\ live' = declared
           /\ version' = Heads(graph)]_vars

\* C7: stamp only writes rows of the version table: whatever the graph, the
\* targets and the rows recorded before, it runs the upgrade or downgrade
\* body of no revision and leaves every table of the schema as it was.
C7_StampRunsNoBody ==
    [][last'.cmd = "stamp"
        => /\ \A p \in DOMAIN last'.executed : last'.sql
           /\ last'.ddl = {}
           /\ live' = live]_vars

\* C7 witness: stamp recorded a revision whose script creates a table on a
\* database where that table does not exist, and the table still does not.
C7_Witness ==
    /\ last.cmd = "stamp"
    /\ ~last.sql
    /\ last.result = "ok"
    /\ version /= last.before
    /\ \E r \in version : \E c \in body[r] : live[c.t] /= c.to

\* the recorded revisions on a line with one of the revisions in to
OnLineage(g, heads, to) ==
    {h \in heads : (Ancestors(g, {h}) \cup Descendants(g, {h})) \cap to /= {}}

\* C8: stamp with purge clears every row of the version table before it
\* writes the rows of the targets, so that afterwards the table records
\* exactly the stamped targets whatever it held; without purge no row is
\* cleared first: the rows that are not on a line with a target stay.
C8_StampPurge ==
    [][(last'.cmd = "stamp" /\ ~last'.sql /\ last'.result = "ok")
        => /\ last'.purge => version' = last'.to
           /\ last'.purged <=> last'.purge
           /\ (~last'.purge /\ last'.to /= {})
                => (version \ OnLineage(graph, version, last'.to))
                        \subseteq version']_vars

\* C8 witness: stamp --purge of some revision on a version table that held
\* a row of another line, which is gone.
C8_Witness ==
    /\ last.cmd = "stamp"
    /\ last.purge
    /\ last.result = "ok"
    /\ version /= {}
    /\ version = last.to
    /\ \E h \in last.before :
            /\ h \notin version
            /\ OnLineage(graph, {h}, version) = {}

\* the statements that drop every table of lv / create every table of md
DropAll(lv) == {[op |-> "drop", t |-> t] : t \in {u \in Tables : lv[u] /= "absent"}}

CreateAll(md) == {[op |-> "create", t |-> t] : t \in {u \in Tables : md[u] /= "absent"}}

\* C9 as stated: sync without a revision, on a live schema that differs from
\* the declared models, drops all tables and creates the declared ones
\* without replaying a revision and stamps base: on success the live schema
\* is the declared one and no revision is recorded.
C9_SyncDropsAll ==
    [][(/\ last'.cmd = "sync"
        /\ last'.noarg
        /\ Diff(live, declared, "sync") /= {}
        /\ last'.result = "ok")
        => /\ DropAll(live) \cup CreateAll(declared) \subseteq last'.ddl
           /\ last'.executed = <<>>
           /\ live' = declared
           /\ version' = {}]_vars

\* C9 amended: sync without a revision, on a live schema that differs from
\* the declared models, applies the operations of the diff in place and only
\* when that raises drops all tables and creates the declared ones; it
\* replays no revision and stamps base: on success the live schema is the
\* declared one and no revision is recorded.
C9_SyncInPlaceOrRebuild ==
    [][(/\ last'.cmd = "sync"
        /\ last'.noarg
        /\ Diff(live, declared, "sync") /= {}
        /\ last'.result = "ok")
        => /\ \/ last'.ddl = {Ddl(c) : c \in Diff(live, declared, "sync")}
              \/ DropAll(live) \cup CreateAll(declared) \subseteq last'.ddl
           /\ last'.executed = <<>>
           /\ live' = declared
           /\ version' = {}]_vars

\* C9 witness: sync without a revision altered a table in place, dropping
\* nothing, on a database that recorded a revision; none is recorded now.
C9_Witness ==
    /\ last.cmd = "sync"
    /\ last.noarg
    /\ last.result = "ok"
    /\ last.ddl /= {}
    /\ \A d \in last.ddl : d.op = "alter"
    /\ last.before /= {}
    /\ live = declared
    /\ version = {}

\* C10: sync without a revision, on a live schema equal to the declared
\* models, changes nothing: no table is dropped, created or altered, the
\* version table is neither stamped nor cleared and the run scripts in the
\* data directory are not rewritten.
C10_SyncNoDrift ==
    [][(/\ last'.cmd = "sync"
        /\ last'.noarg
        /\ \A t \in Tables : live[t] = declared[t])
        => /\ last'.result = "ok"
           /\ last'.ddl = {}
           /\ last'.executed = <<>>
           /\ ~last'.moved
           /\ live' = live
           /\ version' = version
           /\ snapshot' = snapshot]_vars

\* C10 witness: sync without a revision on a database that is at the heads,
\* holds the declared tables and has run scripts in the data directory.
C10_Witness ==
    /\ last.cmd = "sync"
    /\ last.noarg
    /\ last.result = "ok"
    /\ ~last.moved
    /\ live = declared
    /\ version /= {}
    /\ snapshot /= {}

\* the schema after the bodies of the steps ran one after the other on lv
RECURSIVE Replayed(_, _)
Replayed(lv, steps) ==
    IF steps = <<>> THEN lv
    ELSE Replayed(ApplyOps(lv, body[Head(steps).rev]), Tail(steps))

\* C11: sync with a target revision first drops every reflected table, then
\* stamps base, then replays the upgrade steps from base to the target in
\* path order (a revision after all it descends from); when dropping the
\* tables fails the error propagates: nothing is created, nothing is stamped
\* and no upgrade step runs.
C11_SyncToRevision ==
    [][(last'.cmd = "sync" /\ ~last'.noarg)
        => /\ last'.result = "ok"
                => /\ DropAll(live) \subseteq last'.ddl
                   /\ {last'.executed[p].rev : p \in DOMAIN last'.executed}
                            = Ancestors(graph, last'.to)
                   /\ Len(last'.executed) = Cardinality(Ancestors(graph, last'.to))
                   /\ \A p, q \in DOMAIN last'.executed :
                        /\ last'.executed[p].dir = "up"
                        /\ p < q => last'.executed[q].rev
                                        \notin Ancestors(graph, {last'.executed[p].rev})
                   /\ live' = Replayed(EmptySchema, last'.executed)
                   /\ version' = {r \in Ancestors(graph, last'.to) :
                                    Children(graph, r) \cap Ancestors(graph, last'.to) = {}}
           /\ last'.result = "SyncFailed"
                => /\ last'.executed = <<>>
                   /\ \A d \in last'.ddl : d.op = "drop"
                   /\ version' = version
                   /\ ~last'.moved]_vars

\* C11 witness: sync to a revision on a database that held tables and
\* recorded revisions dropped them and replayed two steps from base.
C11_Witness ==
    /\ last.cmd = "sync"
    /\ ~last.noarg
    /\ last.result = "ok"
    /\ last.before /= {}
    /\ \E d \in last.ddl : d.op = "drop"
    /\ Len(last.executed) >= 2
    /\ version = last.to


-----------------------------------------------------------------------------
(***************************************************************************)
(* Claims about the session of an AlembicConfig (SpecSession).             *)
(***************************************************************************)
\* a call of move_script was the step
MoveStep == moved_to' /= moved_to

\* C12: move_script applied to a script whose path is outside the merged
\* workspace returns that same path, moves no file and ends without an
\* error, whatever the plugin version location map holds
C12_MoveOutsideIsNoOp ==
    [][(MoveStep /\ moved_to'.path.root /= "ws")
        => /\ moved_to'.returned = moved_to'.path
           /\ ~moved_to'.moved
           /\ moved_to'.result = "ok"
           /\ scripts' = scripts]_vars

\* a script that was relocated below a version location is handed to
\* move_script again
C12_Witness ==
    /\ moved_to.path.root \notin {"ws", "none"}
    /\ moved_to.path.dirs /= <<>>
    /\ moved_to.returned = moved_to.path
    /\ moved_to.path \in scripts
    /\ plugin_version_locations /= <<>>

\* the file of the script handed to move_script is, after the call, in the
\* directory loc and nowhere else, and that path was returned
RelocatedTo(loc) ==
    LET sc == moved_to'.path
        at == ScriptAt(loc.base, loc.sub, sc.id)
    IN  /\ moved_to'.moved
        /\ moved_to'.result = "ok"
        /\ moved_to'.returned = at
        /\ at \in scripts'
        /\ sc \notin scripts'

\* C13 as stated: the owner of a script inside the workspace is the first
\* directory of its path below the workspace (project-level at the root);
\* when the map has that owner the file is moved to the owner's location
C13_OwnerIsLeadingDirectory ==
    [][(MoveStep /\ moved_to'.path.root = "ws")
        => LET dirs == moved_to'.path.dirs
               owner == IF dirs = <<>> THEN "" ELSE dirs[1]
           IN  owner \in DOMAIN plugin_version_locations
                   => RelocatedTo(plugin_version_locations[owner])]_vars

\* C13, amended: the owner of a script inside the workspace is the last
\* directory of its path below the workspace, the one that holds the script
\* (project-level at the root); when the map has that owner the file is
\* moved to the owner's location and the new path is returned
C13_OwnerIsInnermostDirectory ==
    [][(MoveStep /\ moved_to'.path.root = "ws")
        => LET dirs == moved_to'.path.dirs
               owner == IF dirs = <<>> THEN "" ELSE dirs[Len(dirs)]
           IN  owner \in DOMAIN plugin_version_locations
                   => RelocatedTo(plugin_version_locations[owner])]_vars

\* a script two plugin directories deep was moved to the location of the
\* inner plugin, which is not the location of the outer one
C13_Witness ==
    /\ moved_to.path.root = "ws"
    /\ moved_to.path.dirs = <<"a", "b">>
    /\ moved_to.moved
    /\ {"a", "b"} \subseteq DOMAIN plugin_version_locations
    /\ plugin_version_locations["a"] /= plugin_version_locations["b"]
    /\ moved_to.returned = ScriptAt(plugin_version_locations["b"].base,
                                    plugin_version_locations["b"].sub,
                                    moved_to.path.id)
    /\ moved_to.returned \in scripts

\* the file of the script handed to move_script is where it was, no file
\* was moved, and the warning was printed
LeftInPlace ==
    /\ ~moved_to'.moved
    /\ moved_to'.warned
    /\ moved_to'.result = "ok"
    /\ scripts' = scripts

\* C14 as stated: a script inside the workspace whose owner has no entry in
\* the map is left in place with a warning, and the command does not fail
C14_OrphanLeftInPlace ==
    [][(MoveStep /\ moved_to'.path.root = "ws")
        => LET dirs == moved_to'.path.dirs
               owner == IF dirs = <<>> THEN "" ELSE dirs[Len(dirs)]
           IN  owner \notin DOMAIN plugin_version_locations => LeftInPlace]_vars

\* C14, amended: a script inside the workspace whose owner has no entry in
\* the map is moved to the project-level location, without a warning, when
\* the map has a project-level entry; it is left in place with a warning
\* only when the map has no project-level entry either; the command does
\* not fail
C14_OrphanFallsBackToMain ==
    [][(MoveStep /\ moved_to'.path.root = "ws")
        => LET dirs == moved_to'.path.dirs
               owner == IF dirs = <<>> THEN "" ELSE dirs[Len(dirs)]
           IN  owner \notin DOMAIN plugin_version_locations
                   => IF "" \in DOMAIN plugin_version_locations
                         THEN /\ RelocatedTo(plugin_version_locations[""])
                              /\ ~moved_to'.warned
                         ELSE LeftInPlace]_vars

\* the script of an owner without entry was left in the workspace with a
\* warning, the map holding no project-level entry
C14_Witness ==
    /\ moved_to.path.root = "ws"
    /\ moved_to.path.dirs = <<"c">>
    /\ DOMAIN plugin_version_locations = {}
    /\ moved_to.warned
    /\ ~moved_to.moved
    /\ moved_to.path \in scripts

\* C15: in the merged workspace every path that the main location holds
\* too holds the file of the main location, whatever was copied to that
\* path from the plugin directories, the configured plugin locations and
\* the snapshot of the data directory
C15_MainCopiedLast ==
    (session = "open" /\ ~version_locations_option)
        => LET main == MainLocation(alembic_version_locations)
           IN  \A q \in Holds(main) :
                   /\ q \in DOMAIN workspace
                   /\ workspace[q] = [base |-> main.base, rel |-> main.sub \o q]

\* the main version location joined with the names of the plugins from the
\* outermost parent of p down to p
MainJoinedWithChain(p) ==
    LET outer == IF p = "b" THEN <<"a", "b">> ELSE <<p>>
    IN  [base |-> IF "" \in DOMAIN alembic_version_locations
                     THEN alembic_version_locations[""] ELSE "M",
         sub |-> outer]

\* C16 as stated: the location recorded for a plugin is its configured
\* location when the mapping names the plugin; else its own directory when
\* the plugin is editable and no main location is configured; else the
\* main location joined with its chain of parents
C16_LocationOfPlugin ==
    \A p \in Plugins :
        (session = "open" /\ p \in DOMAIN plugin_version_locations)
            => plugin_version_locations[p] =
                IF p \in DOMAIN alembic_version_locations
                    THEN [base |-> alembic_version_locations[p], sub |-> <<>>]
                ELSE IF editable /\ "" \notin DOMAIN alembic_version_locations
                    THEN OwnDir(p)
                ELSE MainJoinedWithChain(p)

\* C16, amended: the own directory is recorded only when it is, besides, a
\* path of the file system
C16_LocationOfPluginOnDisk ==
    \A p \in Plugins :
        (session = "open" /\ p \in DOMAIN plugin_version_locations)
            => plugin_version_locations[p] =
                IF p \in DOMAIN alembic_version_locations
                    THEN [base |-> alembic_version_locations[p], sub |-> <<>>]
                ELSE IF editable /\ is_path[p]
                        /\ "" \notin DOMAIN alembic_version_locations
                    THEN OwnDir(p)
                ELSE MainJoinedWithChain(p)

\* an editable project without configured main location: plugin a is
\* recorded where it lives, its sub-plugin b, whose migrations are no path
\* of the file system, below the main location
C16_Witness ==
    /\ session = "open"
    /\ editable
    /\ DOMAIN alembic_version_locations = {}
    /\ is_path["a"]
    /\ ~is_path["b"]
    /\ DOMAIN plugin_version_locations = {"", "a", "b"}
    /\ plugin_version_locations["a"] = OwnDir("a")
    /\ plugin_version_locations["b"] = [base |-> "M", sub |-> <<"a", "b">>]

-----------------------------------------------------------------------------
(***************************************************************************)
(* Claims about the scripts revision and merge write (SpecScripts).        *)
(***************************************************************************)
\* the revision the command wrote
NewRevision == Len(graph) + 1

\* nothing but one new script was added to the script directory
OneAdded ==
    /\ Len(graph') = Len(graph) + 1
    /\ \A r \in DOMAIN graph : graph'[r] = graph[r] /\ labels'[r] = labels[r]

\* the heads no revision at or below which declares a branch label
Unlabelled == {h \in Heads(graph) : \A a \in Ancestors(graph, {h}) : labels[a] = {}}

\* C18 as stated: revision without head and without branch label uses the
\* only head when there is one, and fails with AmbiguousHead when there are
\* several: it neither picks one of them nor falls back to base
C18_AmbiguousHead ==
    [][(last'.cmd = "revision" /\ last'.branch_label = "")
        => /\ (Cardinality(Heads(graph)) = 1 /\ last'.generated = 1)
                => /\ OneAdded
                   /\ graph'[NewRevision] = Heads(graph)
           /\ Cardinality(Heads(graph)) > 1
                => /\ last'.result = "AmbiguousHead"
                   /\ last'.generated = 0
                   /\ graph' = graph]_vars

\* C18, amended: revision without head and without branch label uses the
\* only head when there is one; with several heads it does not fail for
\* that: the new revision is based on a head that carries no branch label,
\* and on base when every head carries one
C18_MainBranchHead ==
    [][(last'.cmd = "revision" /\ last'.branch_label = "")
        => /\ last'.result \in {"ok", "OutOfDate"}
           /\ last'.sql => last'.generated = 1
           /\ last'.generated = 1
                => /\ OneAdded
                   /\ labels'[NewRevision] = {}
                   /\ Cardinality(Heads(graph)) = 1
                        => graph'[NewRevision] = Heads(graph)
                   /\ Cardinality(Heads(graph)) > 1
                        => IF Unlabelled = {}
                              THEN graph'[NewRevision] = {}
                              ELSE \E h \in Unlabelled : graph'[NewRevision] = {h}]_vars

\* with two heads, one of them on a labelled branch, the new revision was
\* written on top of the other
C18_Witness ==
    /\ last.cmd = "revision"
    /\ last.branch_label = ""
    /\ last.generated = 1
    /\ last.head \in DOMAIN graph
    /\ graph[Len(graph)] = {last.head}
    /\ \E h \in Heads(graph) \ {Len(graph)} :
            \E a \in Ancestors(graph, {h}) : labels[a] /= {}

\* C19: revision with a branch label and without head: when no revision
\* declares the label the new revision has no down-revision and declares
\* the label; when a revision declares it the new revision is written on the
\* head of that revision's branch and declares no label
C19_BranchLabel ==
    [][(last'.cmd = "revision" /\ last'.branch_label /= "" /\ last'.generated = 1)
        => LET bl == last'.branch_label
               declaring == {r \in DOMAIN graph : bl \in labels[r]}
           IN  /\ OneAdded
               /\ declaring = {}
                    => /\ graph'[NewRevision] = {}
                       /\ labels'[NewRevision] = {bl}
               /\ declaring /= {}
                    => /\ labels'[NewRevision] = {}
                       /\ \E h \in Heads(graph) :
                            /\ graph'[NewRevision] = {h}
                            /\ declaring \subseteq Ancestors(graph, {h})
               /\ Cardinality({r \in DOMAIN graph' : bl \in labels'[r]}) = 1]_vars

\* the label was declared by a revision below the head, and the new
\* revision was written on that head without the label
C19_Witness ==
    /\ last.cmd = "revision"
    /\ last.branch_label = "x"
    /\ last.generated = 1
    /\ last.label = ""
    /\ last.head \in DOMAIN graph
    /\ graph[Len(graph)] = {last.head}
    /\ labels[Len(graph)] = {}
    /\ \E r \in Ancestors(graph, {last.head}) \ {last.head} : "x" \in labels[r]

\* C20: a merge that is carried out writes one new revision whose
\* down-revisions are the revisions given; the new revision is a head, the
\* merged revisions are heads no more, and the other heads are heads still
C20_Merge ==
    [][(last'.cmd = "merge")
        => /\ last'.generated = 1
                => /\ OneAdded
                   /\ graph'[NewRevision] = last'.merged
                   /\ Heads(graph') = (Heads(graph) \ last'.merged) \cup {NewRevision}
           /\ last'.generated = 0 => graph' = graph]_vars

\* two heads were merged
C20_Witness ==
    /\ last.cmd = "merge"
    /\ last.generated = 1
    /\ Cardinality(last.merged) = 2
    /\ graph[Len(graph)] = last.merged
    /\ Heads(graph) = {Len(graph)}


-----------------------------------------------------------------------------
(***************************************************************************)
(* Further claims about the commands (Spec).                               *)
(***************************************************************************)
\* C29: downgrade --sql with a revision that holds no ':' ends with the
\* bad-parameter error that asks for <fromrev>:<torev>; the environment is
\* not entered, no step is rendered, and nothing is changed
C29_DowngradeSqlNeedsRange ==
    [][(last'.cmd = "downgrade" /\ last'.sql /\ ~last'.range)
        => /\ last'.result = "RangeRequired"
           /\ ~last'.entered
           /\ last'.executed = <<>>
           /\ last'.ddl = {}
           /\ ~last'.moved
           /\ live' = live
           /\ version' = version
           /\ snapshot' = snapshot]_vars

\* downgrade --sql without range was refused on a database that holds
\* revisions it could have rendered
C29_Witness ==
    /\ last.cmd = "downgrade"
    /\ last.sql
    /\ ~last.range
    /\ last.result = "RangeRequired"
    /\ version /= {}

Normalised(ver) ==
    \A q, r \in ver : q /= r => q \notin Ancestors(graph, {r})

C27_SnapshotFollowsVersion ==
    [][(last'.cmd \in {"upgrade", "downgrade", "stamp", "sync"})
        => /\ snapshot' = Ancestors(graph, version')
           /\ last'.result /= "ok" => snapshot' = snapshot]_vars

\* the tables of the live database the models do not declare
Undeclared == {t \in Tables : live[t] /= "absent" /\ declared[t] = "absent"}

\* the tables that differ between the live database and the models
Differing == {t \in Tables : live[t] /= declared[t]}

C24_SessionRestored ==
    [][(last'.cmd \in {"upgrade", "downgrade"})
        => /\ last'.executed /= <<>> => last'.during = {"migration"}
           /\ session_factory' = session_factory]_vars

\* ---------------------------------------------------------------------
\* Further claims about the scripts (SpecScripts)

\* C21: edit and show for the current revision fail with EmptyTarget when
\* the version table records no revision, and then no script is
\* relocated, opened or printed
C21_EmptyTarget ==
    [][(last'.cmd \in {"show", "edit"} /\ last'.noarg /\ version = {})
        => /\ last'.result = "EmptyTarget"
           /\ last'.relocated = {}
           /\ last'.opened = {}
           /\ last'.printed = {}]_vars

\* ---------------------------------------------------------------------
\* Claims about the startup (SpecStartup)

\* C22: with the startup check on, a failed check is followed by the
\* confirmation before anything else; confirmed, upgrade runs in the same
\* session, refused, the error of check is raised again and no upgrade
\* runs; upgrade runs only after a failed check and a confirmation, and a
\* successful check is followed by no migration at all
C22_StartupCheck ==
    [][(last'.cmd = "init_orm" /\ last'.startup_check)
        => /\ last'.events[1] = "check"
           /\ last'.check_result /= "ok"
                => /\ Len(last'.events) >= 2
                   /\ last'.events[2] = "confirm"
           /\ (last'.check_result /= "ok" /\ last'.answer)
                => last'.events = <<"check", "confirm", "upgrade">>
           /\ (last'.check_result /= "ok" /\ ~last'.answer)
                => /\ last'.events = <<"check", "confirm">>
                   /\ last'.result = last'.check_result
                   /\ last'.executed = <<>>
                   /\ live' = live /\ version' = version /\ snapshot' = snapshot
           /\ (\E p \in DOMAIN last'.events : last'.events[p] = "upgrade")
                => /\ last'.check_result /= "ok"
                   /\ last'.answer
           /\ last'.check_result = "ok"
                => /\ last'.events = <<"check">>
                   /\ last'.result = "ok"
                   /\ last'.executed = <<>>
                   /\ live' = live /\ version' = version /\ snapshot' = snapshot]_vars

\* the database was behind at startup, the operator confirmed and upgrade
\* ran the missing steps
C22_Witness ==
    /\ last.cmd = "init_orm"
    /\ last.startup_check
    /\ last.check_result = "OutOfDate"
    /\ last.events = <<"check", "confirm", "upgrade">>
    /\ last.executed /= <<>>
    /\ last.result = "ok"

\* ---------------------------------------------------------------------
\* Further claims about the session (SpecSession)

\* C23: building the workspace tolerates missing sources: the constructor
\* raises nothing for them, the directory of every source is made in the
\* workspace, and every source that exists is copied
C23_MissingSourcesTolerated ==
    [][(session = "none" /\ session' /= "none" /\ ~version_locations_option
            /\ init_error' /= "other")
        => LET d == temp_version_locations(alembic_version_locations)
           IN  /\ init_error' = "none"
               /\ session' = "open"
               /\ \A i \in DOMAIN d : d[i].dst \in workspace_dirs'
               /\ \A i \in DOMAIN d :
                    \A r \in Holds(d[i].src) :
                        d[i].dst \o r \in DOMAIN workspace']_vars

\* ---------------------------------------------------------------------
\* Claims about the binds of the models (SpecTables)

\* the bind a table with this bind key belongs to
BindFor(bind_key) == IF bind_key \in sqlalchemy_binds THEN bind_key ELSE ""

\* the model classes whose table has a bind key
Bound == {m \in ModelClasses :
            table_of[m] /= "none" /\ bind_key_of[table_of[m]] /= "None"}

\* C25: after _init_table every table with a bind key is in the metadata
\* of exactly one bind and its model is given the engine of that same bind:
\* the bind of its bind key when that is configured, the default bind ""
\* otherwise
C25_OneBindPerTable ==
    registration = "registered"
        => \A m \in Bound :
            LET bind == BindFor(bind_key_of[table_of[m]])
            IN  /\ m \in DOMAIN orm_binds
                /\ orm_binds[m] = bind
                /\ orm_binds[m] \in orm_engines
                /\ {b \in DOMAIN orm_metadatas : table_of[m] \in orm_metadatas[b]}
                        = {bind}

\* registered a second time: one table went to its configured bind "a",
\* the other, whose bind key names no configured bind, to the default bind
C25_Witness ==
    /\ registration = "registered"
    /\ ninits = 2
    /\ "a" \in sqlalchemy_binds
    /\ bind_key_of["ta"] = "a"
    /\ bind_key_of["tb"] = "p"
    /\ table_of["B"] = "tb"
    /\ orm_binds["A"] = "a"
    /\ orm_binds["B"] = ""
    /\ orm_metadatas["a"] = {"ta"}
    /\ orm_metadatas[""] = {"tb"}

\* ---------------------------------------------------------------------
\* Claims about the offline mode of the multi-database environment
\* (SpecOffline)

\* C30: in offline mode every configured bind is rendered against its own
\* metadata into its own file <name>.sql, no bind with the metadata of
\* another, and rendering raises nothing whatever binds are configured
C30_OfflinePerBind ==
    /\ offline_exc = "none"
    /\ \A f \in DOMAIN sql_files :
            sql_files[f].bind /= "none"
                => /\ f = SqlFile(sql_files[f].bind)
                   /\ sql_files[f].metadata = sql_files[f].bind
    /\ offline_pc = "done"
            => \A b \in RangeOf(engines) :
                    /\ SqlFile(b) \in DOMAIN sql_files
                    /\ sql_files[SqlFile(b)].bind = b

====
